---- MODULE Spec2Model ----
(***************************************************************************)
(* EventBridge Pipes emulation: the control plane of PipesProvider          *)
(* (provider.py), the PipeEntity store (models.py), the worker factory      *)
(* (pipe_worker_factory.py, targets/target_factory.py) and the PipeWorker   *)
(* poll loop (pipe_worker.py).                                              *)
(*                                                                          *)
(* A control-plane handler runs as one step.  A worker thread runs as a     *)
(* sequence of steps, one per statement of _poll_loop that reads or writes  *)
(* shared state, interleaved freely with the handlers and with the other    *)
(* worker threads.                                                          *)
(***************************************************************************)
EXTENDS Integers, Sequences, FiniteSets, TLC

\* ----------------------------------------------------------------- bounds
\* API calls that complete and change a pipe, in one behaviour; the clock
\* advances by one at each, so the call's number is also its timestamp
MaxCalls == 3
\* PipeWorker objects ever built
MaxWorkers == 2
\* PipeEntity objects ever constructed
MaxEnts == 2

\* ----------------------------------------------------------------- inputs
None == "None"

Accounts == {"000000000000"}
Regions == {"us-east-1", "eu-west-1"}
Parts == Accounts \X Regions

\* A name is the tuple of its characters.
Names == {<<"p">>}
BadNames == {<<"p", "/">>}
NameChars == {".", "-", "_", "A", "Z", "a", "p", "q", "z", "0", "9"}
PIPE_NAME_MAX_LENGTH == 64

\* the name of n characters "aa...a"
Long(n) == [i \in 1..n |-> "a"]

\* the name arguments of create_pipe when name validation is examined
NameInputs ==
    {<<>>, <<"p">>, <<"p", "\n">>, <<"\n">>, <<"p", "\n", "\n">>, <<"\n", "p">>,
     <<"p", "/">>, <<"p", " ">>, <<".", "-", "_">>, <<"A", "Z", "a", "z", "0", "9", "q">>,
     Long(PIPE_NAME_MAX_LENGTH), Long(PIPE_NAME_MAX_LENGTH + 1),
     Append(Long(PIPE_NAME_MAX_LENGTH - 1), "\n"),
     Append(Long(PIPE_NAME_MAX_LENGTH), "\n")}

\* the names of the pipes when list_pipes is examined
ListNames == {<<"p">>, <<"p", "q">>, <<"q">>}

\* An ARN is the tuple of its ':'-separated fields; the resource field is the
\* tuple of its '/'-separated parts.
SqsSource == <<"arn", "aws", "sqs", "us-east-1", "000000000000", <<"src">>>>
SqsTarget == <<"arn", "aws", "sqs", "us-east-1", "000000000000", <<"dst">>>>
ApiDestTarget ==
    <<"arn", "aws", "events", "us-east-1", "000000000000", <<"api-destination", "d", "1">>>>
EventBusTarget == <<"arn", "aws", "events", "us-east-1", "000000000000", <<"event-bus", "b">>>>
Sources == {SqsSource}
Targets == {SqsTarget, EventBusTarget}
Roles == {"role"}

\* An optional tag map is <<>> (None) or <<m>>, m a set of <<key, value>> pairs.
NoTags == <<>>
\* the tags argument of create_pipe
CreateTags == {<<{<<"k", "v">>}>>}

VARIABLES
    pipes,          \* pipes_stores[account][region].pipes : name -> entity id, 0 when absent
    TAGS,           \* pipes_stores[account].TAGS : arn -> set of <<key, value>>
    ent,            \* the PipeEntity objects ever constructed, by id
    workers,        \* the PipeWorker objects ever built, by id
    _pipe_workers,   \* PipesProvider._pipe_workers : name -> worker id, 0 when absent
    now,            \* the clock: number of completed mutating API calls so far
    lastCall,       \* the API call that has just returned or raised (NoCall once a
                    \* worker thread has stepped since)
    lastOp,         \* per entity: the last control-plane operation that completed on it
    request,        \* data path: the call under way (its receiver and arguments)
    sent,           \* data path: the delivery calls made on the target's client, in order
    outcome,        \* data path: what the call returned or raised
    loops,          \* per worker thread: the local variables of its _poll_loop, when
                    \* the loop is followed statement by statement
    calls           \* per request thread: the handler it is running, when handlers
                    \* are followed statement by statement

\* the control plane and the data path
ctl == <<pipes, TAGS, ent, workers, _pipe_workers, now, lastCall, lastOp>>
data == <<request, sent, outcome>>
\* the threads followed statement by statement
fine == <<loops, calls>>
vars == <<pipes, TAGS, ent, workers, _pipe_workers, now, lastCall, lastOp,
          request, sent, outcome, loops, calls>>

\* ----------------------------------------------------------------- models.py
_validate_pipe_name(name) ==
    LET n == Len(name)
        ok(i) == name[i] \in NameChars
    IN  /\ n >= 1
        /\ n <= PIPE_NAME_MAX_LENGTH
        \* re.match of ^[...]+$ : '$' also matches before one trailing newline
        /\ \/ \A i \in 1..n : ok(i)
           \/ n >= 2 /\ name[n] = "\n" /\ \A i \in 1..(n - 1) : ok(i)

_pipe_arn(name, account_id, region) ==
    <<"arn", "aws", "pipes", region, account_id, <<"pipe", name>>>>

PipeEntity(name, source, target, role_arn, region, account_id, desired_state, tags, t) ==
    [name |-> name, source |-> source, target |-> target, role_arn |-> role_arn,
     region |-> region, account_id |-> account_id,
     desired_state |-> desired_state, current_state |-> "CREATING",
     state_reason |-> None, tags |-> tags,
     creation_time |-> t, last_modified_time |-> t]

arn(p) == _pipe_arn(p.name, p.account_id, p.region)

\* the keys a partition's pipes dict can hold: the names create_pipe accepts
StoreNames == {n \in Names \cup NameInputs \cup ListNames : _validate_pipe_name(n)}

AllArns == {_pipe_arn(n, pt[1], pt[2]) : n \in StoreNames, pt \in Parts}

\* the resource_arn arguments of the tag operations: the ARN of a pipe name in
\* every region of the caller's account and of another account, an ARN of
\* another service, and a pipes ARN without a name
ForeignAccount == "111111111111"
ArnInputs ==
    {_pipe_arn(n, a, r) : n \in Names, a \in Accounts \cup {ForeignAccount}, r \in Regions}
    \cup {SqsSource, <<"arn", "aws", "pipes", "us-east-1", "000000000000", <<"pipe">>>>}

\* the keys the tag store of an account can hold
TagArns == AllArns \cup ArnInputs

\* ----------------------------------------------------------------- factories
_service_from_arn(a) == IF Len(a) >= 3 THEN a[3] ELSE ""

\* PipeTargetFactory.create: TRUE when a target is returned, FALSE when
\* ValidationException is raised
PipeTargetFactory_create(target_arn) ==
    LET service == _service_from_arn(target_arn)
    IN  \/ service = "sqs"
        \/ service = "kinesis"
        \/ /\ service = "events"
           /\ \E i \in 1..Len(target_arn[6]) : target_arn[6][i] = "api-destination"

\* _create_poller: TRUE when a poller is returned, FALSE when ValueError is raised
_create_poller(service) == service \in {"sqs", "kinesis", "dynamodb"}

\* PipeWorkerFactory.create: TRUE when a PipeWorker is returned
PipeWorkerFactory_create(pipe) ==
    /\ PipeTargetFactory_create(pipe.target)
    /\ _create_poller(_service_from_arn(pipe.source))

\* ----------------------------------------------------------------- pipe_worker.py
\* A program state is passed through the handlers' callees as the record
\* [ent, workers, idx] (idx is _pipe_workers).
PipeWorker(e) == [pipe |-> e, pc |-> "new", shutdown |-> FALSE, closed |-> 0]

\* PipeWorker.start; threadOk is whether FuncThread.start() succeeds
PipeWorker_start(S, w, threadOk) ==
    [S EXCEPT !.ent[S.workers[w].pipe].current_state = "STARTING",
              !.workers[w].shutdown = FALSE,
              !.workers[w].pc = IF threadOk THEN "spawned" ELSE "new"]

PipeWorker_stop(S, w) ==
    [S EXCEPT !.ent[S.workers[w].pipe].current_state = "STOPPING",
              !.workers[w].shutdown = TRUE]

\* ----------------------------------------------------------------- provider.py
\* (mutant) the except clause logs and leaves the entity as it is
_start_pipe_worker_log_only(S, e, threadOk) ==
    IF ~PipeWorkerFactory_create(S.ent[e])
    THEN S
    ELSE LET w == Len(S.workers) + 1
             S1 == [S EXCEPT !.workers = Append(S.workers, PipeWorker(e)),
                             !.idx[S.ent[e].name] = w]
         IN  PipeWorker_start(S1, w, threadOk)

_start_pipe_worker(S, e, threadOk) ==
    LET failed(T) == [T EXCEPT !.ent[e].current_state = "CREATE_FAILED",
                               !.ent[e].state_reason = "Failed to start pipe worker"]
    IN  IF ~PipeWorkerFactory_create(S.ent[e])
        THEN failed(S)
        ELSE LET w == Len(S.workers) + 1
                 S1 == [S EXCEPT !.workers = Append(S.workers, PipeWorker(e)),
                                 !.idx[S.ent[e].name] = w]
                 S2 == PipeWorker_start(S1, w, threadOk)
             IN  IF threadOk THEN S2 ELSE failed(S2)

\* (mutant) the worker is looked up with get() and stays in the index
_stop_pipe_worker_get(S, e) ==
    LET w == S.idx[S.ent[e].name]
    IN  IF w = 0
        THEN S
        ELSE [PipeWorker_stop(S, w) EXCEPT !.ent[e].current_state = "STOPPED"]

_stop_pipe_worker(S, e) ==
    LET n == S.ent[e].name
        w == S.idx[n]
    IN  IF w = 0
        THEN S
        ELSE [PipeWorker_stop([S EXCEPT !.idx[n] = 0], w)
                 EXCEPT !.ent[e].current_state = "STOPPED"]

\* (mutant) the except clause puts the worker back into the index
_stop_pipe_worker_except_keeps(S, e) ==
    [S EXCEPT !.ent[e].current_state =
        IF S.idx[S.ent[e].name] = 0 THEN @ ELSE "STOP_FAILED"]

\* _stop_pipe_worker with a worker whose stop() raises before it has done
\* anything: the except clause
_stop_pipe_worker_except(S, e) ==
    LET n == S.ent[e].name
        w == S.idx[n]
    IN  IF w = 0
        THEN S
        ELSE [S EXCEPT !.idx[n] = 0, !.ent[e].current_state = "STOP_FAILED"]

Here == [ent |-> ent, workers |-> workers, idx |-> _pipe_workers]

\* the six fields every lifecycle response echoes
Response(p) ==
    [Arn |-> arn(p), Name |-> p.name, DesiredState |-> p.desired_state,
     CurrentState |-> p.current_state, CreationTime |-> p.creation_time,
     LastModifiedTime |-> p.last_modified_time]

NoResponse == [Arn |-> <<>>]

Call(op, account, region, name, result, resp) ==
    [op |-> op, account |-> account, region |-> region,
     name |-> name, result |-> result, resp |-> resp]

\* the same, with the desired_state argument of create_pipe
CallWith(op, account, region, name, result, resp, desired_state) ==
    [op |-> op, account |-> account, region |-> region, name |-> name,
     result |-> result, resp |-> resp, desired_state |-> desired_state]

NoCall ==
    [op |-> None, account |-> None, region |-> None, name |-> <<>>,
     result |-> None, resp |-> NoResponse]

\* A call that raises, or that only reads, leaves the program state as it
\* was: every continuation after it is a continuation from the state before
\* it, so no further call is explored until a worker thread has stepped.
Ready ==
    /\ now < MaxCalls
    /\ lastCall.result \in {None, "ok"}
    /\ lastCall.op # "describe_pipe"

\* the handler raises: nothing but the call record changes
Raise(op, account, region, name, exc) ==
    /\ lastCall' = Call(op, account, region, name, exc, NoResponse)
    /\ UNCHANGED <<pipes, TAGS, ent, workers, _pipe_workers, now, lastOp, data, fine>>

\* _get_pipe: the entity id, 0 when NotFoundException is raised
_get_pipe(account, region, name) ==
    IF name \in StoreNames THEN pipes[<<account, region>>][name] ELSE 0

\* TaggingService.tag_resource / untag_resource on the account's tag store
tag_resource_svc(T, account, a, tags) ==
    [T EXCEPT ![account][a] =
        {kv \in @ : \A n \in tags : n[1] # kv[1]} \cup tags]

untag_resource_svc(T, account, a, keys) ==
    [T EXCEPT ![account][a] = {kv \in @ : kv[1] \notin keys}]

TagKeys(tags) == IF tags = NoTags THEN {} ELSE {kv[1] : kv \in tags[1]}

\* The entity's last completed control-plane operation becomes op: its
\* current_state before and at the return of the call, the worker the call
\* took out of the index and the worker it built (0 when none).
Op(op, pre, S, e, popped) ==
    [op |-> op, pre |-> pre, post |-> S.ent[e].current_state,
     stopped |-> popped,
     started |-> IF Len(S.workers) > Len(workers) THEN Len(S.workers) ELSE 0]

Did(e, op, S, popped) ==
    [lastOp EXCEPT ![e] = Op(op, ent[e].current_state, S, e, popped)]

Popped(e) == _pipe_workers[ent[e].name]

\* (mutant) the duplicate check is missing
create_pipe_exists_never(account, region, name) == FALSE

\* create_pipe: the name is already in the partition's store
create_pipe_exists(account, region, name) == pipes[<<account, region>>][name] # 0

\* (mutant) the conflict test reads current_state
start_pipe_conflict_current(pipe) == pipe.current_state = "RUNNING"

\* start_pipe / stop_pipe: the pipe is already in the requested state
start_pipe_conflict(pipe) == pipe.desired_state = "RUNNING"

stop_pipe_conflict(pipe) == pipe.desired_state = "STOPPED"

RECURSIVE JoinWith(_, _)
\* str.join: the texts ps[1], ..., ps[n] with sep between them
JoinWith(ps, sep) ==
    IF Len(ps) = 0 THEN <<>>
    ELSE IF Len(ps) = 1 THEN ps[1]
    ELSE ps[1] \o <<sep>> \o JoinWith(Tail(ps), sep)

\* the longest prefix of a text that '.+' can match: up to the first newline
Line(cs) ==
    LET nl == {i \in 1..Len(cs) : cs[i] = "\n"}
    IN  IF nl = {} THEN cs
        ELSE SubSeq(cs, 1, (CHOOSE i \in nl : \A j \in nl : i <= j) - 1)

\* _pipe_name_from_arn: re.match of arn:aws:pipes:[^:]+:[^:]+:pipe/(.+)
_pipe_name_from_arn(a) ==
    LET rest == JoinWith(Tail(a[6]), "/")
                \o (IF Len(a) > 6
                    THEN <<":">> \o JoinWith([i \in 1..(Len(a) - 6) |-> <<a[6 + i]>>], ":")
                    ELSE <<>>)
        group == Line(rest)
    IN  IF /\ Len(a) >= 6
           /\ a[1] = "arn" /\ a[2] = "aws" /\ a[3] = "pipes"
           /\ a[4] # "" /\ a[5] # ""
           /\ Len(a[6]) >= 2 /\ a[6][1] = "pipe"
           /\ Len(group) >= 1
        THEN group
        ELSE a

\* an API call on a resource ARN
CallArn(op, account, region, name, result, resp, resource_arn) ==
    [op |-> op, account |-> account, region |-> region, name |-> name,
     result |-> result, resp |-> resp, resource_arn |-> resource_arn]

\* the tag map of an entity as a set of pairs (None has no pairs)
TagMap(tags) == IF tags = NoTags THEN {} ELSE tags[1]

\* dict.update
dict_update(m, tags) == {kv \in m : \A n \in tags : n[1] # kv[1]} \cup tags

\* tag_resource: pipe.tags after the entity is updated
tag_resource_mirror(pipe, tags) == <<dict_update(TagMap(pipe.tags), tags)>>

\* (mutant) the entry is left in the store
del_pipes_keep(account, region, name) == pipes

\* delete_pipe: del store.pipes[name]
del_pipes(account, region, name) == [pipes EXCEPT ![<<account, region>>][name] = 0]

NoRequest == [op |-> None]
NoOutcome == <<"none">>

WorkerIds == 1..(MaxWorkers + 1)

\* ----------------------------------------------------------------- utils/backoff.py
\* ExponentialBackoff: retry_interval is the interval the next failure gets,
\* 0 when there was no failure since construction or reset
ExponentialBackoff(initial_interval, max_interval) ==
    [initial_interval |-> initial_interval, max_interval |-> max_interval,
     retry_interval |-> 0]

reset(b) == [b EXCEPT !.retry_interval = 0]

\* next_backoff: the interval to sleep now, and the backoff after the call
next_backoff(b) ==
    LET interval == IF b.retry_interval = 0 THEN b.initial_interval ELSE b.retry_interval
        doubled == 2 * interval
    IN  [interval |-> interval,
         backoff |-> [b EXCEPT !.retry_interval =
                         IF doubled < b.max_interval THEN doubled ELSE b.max_interval]]

\* ----------------------------------------------------------------- pipe_worker.py, locals
PIPES_POLL_INTERVAL_SEC == 1
MAX_BACKOFF_ON_ERROR_SEC == 300

\* (mutant) the backoff is built without the cap of the module
error_backoff_default_cap == ExponentialBackoff(2, 60)

\* error_backoff = ExponentialBackoff(initial_interval=2, max_interval=...)
error_backoff == ExponentialBackoff(2, MAX_BACKOFF_ON_ERROR_SEC)

\* The local variables of _poll_loop at its entry, with what the thread has
\* done so far: late, the poll_events calls begun with the event already set
\* (counted up to 2); fails, the failed polls since the last successful one;
\* last, how the last poll ended; slept, the timeout of the last wait and
\* whether it ran out; waits, whether the thread has waited
LoopLocals ==
    [error_backoff |-> error_backoff, poll_interval |-> PIPES_POLL_INTERVAL_SEC,
     late |-> 0, fails |-> 0, last |-> None,
     slept |-> [timeout |-> 0, ran_out |-> FALSE], waits |-> 0]

\* the provider, the stores and the clock before any request
CtlInit ==
    /\ pipes = [pt \in Parts |-> [n \in StoreNames |-> 0]]
    /\ TAGS = [a \in Accounts |-> [x \in TagArns |-> {}]]
    /\ ent = <<>>
    /\ workers = <<>>
    /\ _pipe_workers = [n \in StoreNames |-> 0]
    /\ now = 0
    /\ lastCall = NoCall
    /\ lastOp = <<>>
    /\ loops = [w \in WorkerIds |-> LoopLocals]
    /\ calls = <<>>

Init ==
    /\ CtlInit
    /\ request = NoRequest
    /\ sent = <<>>
    /\ outcome = NoOutcome

create_pipe(account, region, name, source, target, role_arn, desired_state, tags, threadOk) ==
    /\ Ready
    /\ IF ~_validate_pipe_name(name)
       THEN Raise("create_pipe", account, region, name, "ValidationException")
       ELSE IF create_pipe_exists(account, region, name)
       THEN Raise("create_pipe", account, region, name, "ConflictException")
       ELSE LET ds == IF desired_state = None THEN "RUNNING" ELSE desired_state
                e == Len(ent) + 1
                pipe == PipeEntity(name, source, target, role_arn, region, account,
                                   ds, tags, now + 1)
                S0 == [Here EXCEPT !.ent = Append(ent, pipe)]
                S1 == IF ds = "RUNNING"
                      THEN _start_pipe_worker(S0, e, threadOk)
                      ELSE [S0 EXCEPT !.ent[e].current_state = "STOPPED"]
            IN  /\ Len(ent) < MaxEnts
                /\ Len(S1.workers) <= MaxWorkers
                /\ pipes' = [pipes EXCEPT ![<<account, region>>][name] = e]
                /\ TAGS' = IF TagKeys(tags) # {}
                           THEN tag_resource_svc(TAGS, account, arn(pipe), tags[1])
                           ELSE TAGS
                /\ ent' = S1.ent
                /\ workers' = S1.workers
                /\ _pipe_workers' = S1.idx
                /\ now' = now + 1
                /\ lastOp' = Append(lastOp, Op("create_pipe", "CREATING", S1, e, 0))
                /\ lastCall' = CallWith("create_pipe", account, region, name, "ok",
                                        Response(S1.ent[e]), desired_state)
                /\ UNCHANGED <<data, fine>>

delete_pipe(account, region, name) ==
    /\ Ready
    /\ LET e == _get_pipe(account, region, name)
       IN  IF e = 0
           THEN Raise("delete_pipe", account, region, name, "NotFoundException")
           ELSE LET S1 == _stop_pipe_worker(Here, e)
                    S2 == [S1 EXCEPT !.ent[e].current_state = "DELETING",
                                     !.ent[e].desired_state = "DELETED",
                                     !.ent[e].last_modified_time = now + 1]
                IN  /\ TAGS' = untag_resource_svc(TAGS, account, arn(ent[e]),
                                                  TagKeys(ent[e].tags))
                    /\ pipes' = del_pipes(account, region, name)
                    /\ ent' = S2.ent
                    /\ workers' = S2.workers
                    /\ _pipe_workers' = S2.idx
                    /\ now' = now + 1
                    /\ lastOp' = Did(e, "delete_pipe", S2, Popped(e))
                    /\ lastCall' = Call("delete_pipe", account, region, name, "ok",
                                        Response(S2.ent[e]))
                    /\ UNCHANGED <<data, fine>>

describe_pipe(account, region, name) ==
    /\ Ready
    /\ LET e == _get_pipe(account, region, name)
       IN  IF e = 0
           THEN Raise("describe_pipe", account, region, name, "NotFoundException")
           ELSE /\ lastCall' = Call("describe_pipe", account, region, name, "ok",
                                    [Arn |-> arn(ent[e]), Name |-> ent[e].name,
                                     DesiredState |-> ent[e].desired_state,
                                     CurrentState |-> ent[e].current_state,
                                     StateReason |-> ent[e].state_reason,
                                     Source |-> ent[e].source,
                                     Target |-> ent[e].target,
                                     RoleArn |-> ent[e].role_arn,
                                     Tags |-> ent[e].tags,
                                     CreationTime |-> ent[e].creation_time,
                                     LastModifiedTime |-> ent[e].last_modified_time])
                /\ UNCHANGED <<pipes, TAGS, ent, workers, _pipe_workers, now, lastOp, data, fine>>

start_pipe(account, region, name, threadOk) ==
    /\ Ready
    /\ LET e == _get_pipe(account, region, name)
       IN  IF e = 0
           THEN Raise("start_pipe", account, region, name, "NotFoundException")
           ELSE IF start_pipe_conflict(ent[e])
           THEN Raise("start_pipe", account, region, name, "ConflictException")
           ELSE LET S0 == [Here EXCEPT !.ent[e].desired_state = "RUNNING",
                                       !.ent[e].last_modified_time = now + 1]
                    S1 == _start_pipe_worker(S0, e, threadOk)
                IN  /\ Len(S1.workers) <= MaxWorkers
                    /\ ent' = S1.ent
                    /\ workers' = S1.workers
                    /\ _pipe_workers' = S1.idx
                    /\ now' = now + 1
                    /\ lastOp' = Did(e, "start_pipe", S1, 0)
                    /\ lastCall' = Call("start_pipe", account, region, name, "ok",
                                        Response(S1.ent[e]))
                    /\ UNCHANGED <<pipes, TAGS, data, fine>>

\* stop_pipe; stop_raises is whether the stop() of the worker in the index raises
stop_pipe_with(account, region, name, stop_raises) ==
    /\ Ready
    /\ LET e == _get_pipe(account, region, name)
       IN  IF e = 0
           THEN Raise("stop_pipe", account, region, name, "NotFoundException")
           ELSE IF stop_pipe_conflict(ent[e])
           THEN Raise("stop_pipe", account, region, name, "ConflictException")
           ELSE LET S0 == [Here EXCEPT !.ent[e].desired_state = "STOPPED",
                                       !.ent[e].last_modified_time = now + 1]
                    S1 == IF stop_raises
                          THEN _stop_pipe_worker_except(S0, e)
                          ELSE _stop_pipe_worker(S0, e)
                IN  /\ ent' = S1.ent
                    /\ workers' = S1.workers
                    /\ _pipe_workers' = S1.idx
                    /\ now' = now + 1
                    /\ lastOp' = Did(e, "stop_pipe", S1, Popped(e))
                    /\ lastCall' = Call("stop_pipe", account, region, name, "ok",
                                        Response(S1.ent[e]))
                    /\ UNCHANGED <<pipes, TAGS, data, fine>>

\* stop_pipe with PipeWorker.stop as pipe_worker.py defines it, which returns
stop_pipe(account, region, name) == stop_pipe_with(account, region, name, FALSE)

\* on_before_stop; raises is the set of workers whose stop() raises.  Each
\* worker of the index belongs to one pipe, so the order of the loop does not
\* show in the result.
on_before_stop(raises) ==
    LET registered == {_pipe_workers[n] : n \in StoreNames} \ {0}
        stopped == registered \ raises
    IN  /\ Ready
        /\ ent' = [e \in 1..Len(ent) |->
                      IF \E w \in stopped : workers[w].pipe = e
                      THEN [ent[e] EXCEPT !.current_state = "STOPPING"]
                      ELSE ent[e]]
        /\ workers' = [w \in 1..Len(workers) |->
                          IF w \in stopped
                          THEN [workers[w] EXCEPT !.shutdown = TRUE]
                          ELSE workers[w]]
        /\ _pipe_workers' = [n \in StoreNames |-> 0]
        /\ now' = now + 1
        /\ lastCall' = [op |-> "on_before_stop", account |-> None, region |-> None,
                        name |-> <<>>, result |-> "ok", resp |-> NoResponse,
                        registered |-> registered, raised |-> registered \cap raises]
        /\ UNCHANGED <<pipes, TAGS, lastOp, data, fine>>

update_pipe(account, region, name, role_arn, desired_state, target, threadOk) ==
    /\ Ready
    /\ LET e == _get_pipe(account, region, name)
       IN  IF e = 0
           THEN Raise("update_pipe", account, region, name, "NotFoundException")
           ELSE LET S1 == _stop_pipe_worker(Here, e)
                    S2 == [S1 EXCEPT
                             !.ent[e].role_arn = role_arn,
                             !.ent[e].desired_state =
                                 IF desired_state # None THEN desired_state ELSE @,
                             !.ent[e].target = IF target # <<>> THEN target ELSE @,
                             !.ent[e].current_state = "UPDATING",
                             !.ent[e].last_modified_time = now + 1]
                    effective_desired ==
                        IF desired_state # None THEN desired_state
                        ELSE S2.ent[e].desired_state
                    S3 == IF effective_desired = "RUNNING"
                          THEN _start_pipe_worker(S2, e, threadOk)
                          ELSE [S2 EXCEPT !.ent[e].current_state = "STOPPED"]
                IN  /\ Len(S3.workers) <= MaxWorkers
                    /\ ent' = S3.ent
                    /\ workers' = S3.workers
                    /\ _pipe_workers' = S3.idx
                    /\ now' = now + 1
                    /\ lastOp' = Did(e, "update_pipe", S3, Popped(e))
                    /\ lastCall' = Call("update_pipe", account, region, name, "ok",
                                        Response(S3.ent[e]))
                    /\ UNCHANGED <<pipes, TAGS, data, fine>>

tag_resource(account, region, resource_arn, tags) ==
    /\ Ready
    /\ LET pipe_name == _pipe_name_from_arn(resource_arn)
           e == _get_pipe(account, region, pipe_name)
       IN  IF e = 0
           THEN /\ lastCall' = CallArn("tag_resource", account, region, pipe_name,
                                       "NotFoundException", NoResponse, resource_arn)
                /\ UNCHANGED <<pipes, TAGS, ent, workers, _pipe_workers, now, lastOp, data, fine>>
           ELSE LET S1 == [Here EXCEPT !.ent[e].tags = tag_resource_mirror(ent[e], tags)]
                IN  /\ TAGS' = tag_resource_svc(TAGS, account, resource_arn, tags)
                    /\ ent' = S1.ent
                    /\ now' = now + 1
                    /\ lastOp' = Did(e, "tag_resource", S1, 0)
                    /\ lastCall' = CallArn("tag_resource", account, region, pipe_name,
                                           "ok", NoResponse, resource_arn)
                    /\ UNCHANGED <<pipes, workers, _pipe_workers, data, fine>>

untag_resource(account, region, resource_arn, tag_keys) ==
    /\ Ready
    /\ LET pipe_name == _pipe_name_from_arn(resource_arn)
           e == _get_pipe(account, region, pipe_name)
       IN  IF e = 0
           THEN /\ lastCall' = CallArn("untag_resource", account, region, pipe_name,
                                       "NotFoundException", NoResponse, resource_arn)
                /\ UNCHANGED <<pipes, TAGS, ent, workers, _pipe_workers, now, lastOp, data, fine>>
           ELSE LET S1 == IF TagMap(ent[e].tags) # {}
                          THEN [Here EXCEPT !.ent[e].tags =
                                   <<{kv \in @[1] : kv[1] \notin tag_keys}>>]
                          ELSE Here
                IN  /\ TAGS' = untag_resource_svc(TAGS, account, resource_arn, tag_keys)
                    /\ ent' = S1.ent
                    /\ now' = now + 1
                    /\ lastOp' = Did(e, "untag_resource", S1, 0)
                    /\ lastCall' = CallArn("untag_resource", account, region, pipe_name,
                                           "ok", NoResponse, resource_arn)
                    /\ UNCHANGED <<pipes, workers, _pipe_workers, data, fine>>

list_tags_for_resource(account, region, resource_arn) ==
    /\ Ready
    /\ LET pipe_name == _pipe_name_from_arn(resource_arn)
           e == _get_pipe(account, region, pipe_name)
       IN  /\ lastCall' =
                IF e = 0
                THEN CallArn("list_tags_for_resource", account, region, pipe_name,
                             "NotFoundException", NoResponse, resource_arn)
                ELSE CallArn("list_tags_for_resource", account, region, pipe_name,
                             "read", [tags |-> TAGS[account][resource_arn]], resource_arn)
           /\ UNCHANGED <<pipes, TAGS, ent, workers, _pipe_workers, now, lastOp, data, fine>>

\* An optional argument of list_pipes other than a state is <<>> (None) or <<x>>.
\* A name prefix is a tuple of characters; an ARN prefix is the tuple of the
\* ':'-separated fields of a text that ends in ':'.
DEFAULT_MAX_RESULTS == 100

\* Python truthiness of an optional text, and of an optional number
Truthy(opt) == opt # <<>> /\ opt[1] # <<>>

TruthyInt(opt) == opt # <<>> /\ opt[1] # 0

\* str.startswith
startswith(text, prefix) ==
    Len(text) >= Len(prefix) /\ SubSeq(text, 1, Len(prefix)) = prefix

\* str.startswith for an ARN and a prefix that ends in ':'
arn_startswith(a, prefix) ==
    Len(a) > Len(prefix) /\ SubSeq(a, 1, Len(prefix)) = prefix

\* seq[:m]
SliceTo(seq, m) ==
    IF m >= 0
    THEN SubSeq(seq, 1, IF m < Len(seq) THEN m ELSE Len(seq))
    ELSE SubSeq(seq, 1, IF Len(seq) + m > 0 THEN Len(seq) + m ELSE 0)

RECURSIVE Ascending(_)
Ascending(S) ==
    IF S = {} THEN <<>>
    ELSE LET m == CHOOSE x \in S : \A y \in S : x <= y
         IN  <<m>> \o Ascending(S \ {m})

\* list(store.pipes.values()): the entities of the partition, in insertion order
store_values(account, region) ==
    Ascending({pipes[<<account, region>>][n] : n \in StoreNames} \ {0})

\* max_results = limit or 100
max_results(limit) == IF TruthyInt(limit) THEN limit[1] ELSE DEFAULT_MAX_RESULTS

PipeSummary(p) ==
    [Name |-> p.name, Arn |-> arn(p), DesiredState |-> p.desired_state,
     CurrentState |-> p.current_state, StateReason |-> p.state_reason,
     CreationTime |-> p.creation_time, LastModifiedTime |-> p.last_modified_time,
     Source |-> p.source, Target |-> p.target]

list_pipes(account, region, name_prefix, desired_state, current_state, source_prefix, target_prefix, limit) ==
    /\ Ready
    /\ LET f1(e) == Truthy(name_prefix) => startswith(ent[e].name, name_prefix[1])
           f2(e) == desired_state # None => ent[e].desired_state = desired_state
           f3(e) == current_state # None => ent[e].current_state = current_state
           f4(e) == Truthy(source_prefix) => arn_startswith(ent[e].source, source_prefix[1])
           f5(e) == Truthy(target_prefix) => arn_startswith(ent[e].target, target_prefix[1])
           keep(e) == f1(e) /\ f2(e) /\ f3(e) /\ f4(e) /\ f5(e)
           found == SelectSeq(store_values(account, region), keep)
           page == SliceTo(found, max_results(limit))
       IN  lastCall' =
               [op |-> "list_pipes", account |-> account, region |-> region,
                name |-> <<>>, result |-> "read",
                resp |-> [Pipes |-> [i \in 1..Len(page) |-> PipeSummary(ent[page[i]])]],
                name_prefix |-> name_prefix, desired_state |-> desired_state,
                current_state |-> current_state, source_prefix |-> source_prefix,
                target_prefix |-> target_prefix, limit |-> limit]
    /\ UNCHANGED <<pipes, TAGS, ent, workers, _pipe_workers, now, lastOp, data, fine>>

\* ----------------------------------------------------------------- the worker thread
\* PipeWorker._poll_loop, statement by statement.  pc of a worker:
\*   new      built, thread not started        spawned  thread started, loop not entered
\*   loop     at the while test                poll     inside the loop body
\*   exit     left the while loop              closed   poller.close() returned
\*   done     thread finished
At(w, pc) == w \in 1..Len(workers) /\ workers[w].pc = pc

Goto(w, pc) == workers' = [workers EXCEPT ![w].pc = pc]

_poll_loop_enter(w) ==
    /\ At(w, "spawned")
    /\ ent' = [ent EXCEPT ![workers[w].pipe].current_state = "RUNNING"]
    /\ Goto(w, "loop")
    /\ lastCall' = NoCall
    /\ UNCHANGED <<pipes, TAGS, _pipe_workers, now, lastOp, data, fine>>

_poll_loop_test(w) ==
    /\ At(w, "loop")
    /\ Goto(w, IF workers[w].shutdown THEN "exit" ELSE "poll")
    /\ lastCall' = NoCall
    /\ UNCHANGED <<pipes, TAGS, ent, _pipe_workers, now, lastOp, data, fine>>

\* poll_events() returns or raises, and the wait of the finally clause ends, by
\* timeout or because the event is set
_poll_loop_poll(w) ==
    /\ At(w, "poll")
    /\ Goto(w, "loop")
    /\ lastCall' = NoCall
    /\ UNCHANGED <<pipes, TAGS, ent, _pipe_workers, now, lastOp, data, fine>>

_poll_loop_close(w) ==
    /\ At(w, "exit")
    /\ workers' = [workers EXCEPT ![w].pc = "closed", ![w].closed = @ + 1]
    /\ lastCall' = NoCall
    /\ UNCHANGED <<pipes, TAGS, ent, _pipe_workers, now, lastOp, data, fine>>

_poll_loop_stopped(w) ==
    /\ At(w, "closed")
    /\ ent' = [ent EXCEPT ![workers[w].pipe].current_state = "STOPPED"]
    /\ Goto(w, "done")
    /\ lastCall' = NoCall
    /\ UNCHANGED <<pipes, TAGS, _pipe_workers, now, lastOp, data, fine>>

WorkerStep(w) ==
    \/ _poll_loop_enter(w)
    \/ _poll_loop_test(w)
    \/ _poll_loop_poll(w)
    \/ _poll_loop_close(w)
    \/ _poll_loop_stopped(w)

Next ==
    \/ \E pt \in Parts, n \in Names \cup BadNames, s \in Sources, t \in Targets,
          r \in Roles, ds \in {None, "RUNNING", "STOPPED"}, tg \in CreateTags,
          ok \in BOOLEAN :
            create_pipe(pt[1], pt[2], n, s, t, r, ds, tg, ok)
    \/ \E pt \in Parts, n \in Names : delete_pipe(pt[1], pt[2], n)
    \/ \E pt \in Parts, n \in Names : describe_pipe(pt[1], pt[2], n)
    \/ \E pt \in Parts, n \in Names, ok \in BOOLEAN : start_pipe(pt[1], pt[2], n, ok)
    \/ \E pt \in Parts, n \in Names : stop_pipe(pt[1], pt[2], n)
    \/ \E pt \in Parts, n \in Names, r \in Roles, ds \in {None, "RUNNING", "STOPPED"},
          t \in Targets \cup {<<>>}, ok \in BOOLEAN :
            update_pipe(pt[1], pt[2], n, r, ds, t, ok)
    \/ \E w \in WorkerIds : WorkerStep(w)

Spec == Init /\ [][Next]_vars

\* the worker threads are scheduled fairly: a thread that can take a step does
FairSpec == Spec /\ \A w \in WorkerIds : WF_vars(WorkerStep(w))

\* ----------------------------------------------------------------- stopping runs
\* pipes of both partitions are created running, stopped with a stop() that
\* returns or raises, and the process-stop hook runs
StopNext ==
    \/ \E pt \in Parts, n \in Names :
            create_pipe(pt[1], pt[2], n, SqsSource, SqsTarget, "role", None, NoTags, TRUE)
    \/ \E pt \in Parts, n \in Names, raises \in BOOLEAN :
            stop_pipe_with(pt[1], pt[2], n, raises)
    \/ \E raises \in SUBSET (1..MaxWorkers) : on_before_stop(raises)
    \/ \E w \in WorkerIds : WorkerStep(w)

StopSpec == Init /\ [][StopNext]_vars

\* the same with PipeWorker.stop as pipe_worker.py defines it, which returns
HookNext ==
    \/ \E pt \in Parts, n \in Names :
            create_pipe(pt[1], pt[2], n, SqsSource, SqsTarget, "role", None, NoTags, TRUE)
    \/ \E pt \in Parts, n \in Names : stop_pipe(pt[1], pt[2], n)
    \/ on_before_stop({})
    \/ \E w \in WorkerIds : WorkerStep(w)

\* the worker threads are scheduled fairly
FairHookSpec ==
    Init /\ [][HookNext]_vars /\ \A w \in WorkerIds : WF_vars(WorkerStep(w))

\* ----------------------------------------------------------------- request threads
\* The handlers of provider.py run on request threads and take no lock: a
\* thread can be preempted between any two statements.  A handler is run here
\* one statement that reads or writes shared state at a time; calls holds one
\* record per request thread: op and desired_state, the handler and its
\* argument; pc, the statement the thread is at; pipe and worker, its locals;
\* result, "ok" or the exception raised.
\* All requests name the pipe "p" of one partition.
MaxThreads == 3
RaceAccount == "000000000000"
RaceRegion == "us-east-1"
RaceName == <<"p">>

Thread(op, desired_state) ==
    [op |-> op, desired_state |-> desired_state,
     pc |-> IF op = "create_pipe" THEN "check" ELSE "get",
     pipe |-> 0, worker |-> 0, result |-> None]

ThreadAt(i, ops, pc) == i \in 1..Len(calls) /\ calls[i].op \in ops /\ calls[i].pc = pc

Jump(i, pc) == calls' = [calls EXCEPT ![i].pc = pc]

Return(i, result) == calls' = [calls EXCEPT ![i].pc = "returned", ![i].result = result]

\* a request arrives and its handler is entered on a thread of its own
Request(op, desired_state) ==
    /\ Len(calls) < MaxThreads
    /\ calls' = Append(calls, Thread(op, desired_state))
    /\ now' = now + 1
    /\ UNCHANGED <<pipes, TAGS, ent, workers, _pipe_workers, lastCall, lastOp, data, loops>>

\* create_pipe: if name in store.pipes
create_pipe_check(i) ==
    /\ ThreadAt(i, {"create_pipe"}, "check")
    /\ IF create_pipe_exists(RaceAccount, RaceRegion, RaceName)
       THEN Return(i, "ConflictException")
       ELSE Jump(i, "store")
    /\ UNCHANGED <<ctl, data, loops>>

\* create_pipe: pipe = PipeEntity(...); store.pipes[name] = pipe
create_pipe_store(i) ==
    /\ ThreadAt(i, {"create_pipe"}, "store")
    /\ Len(ent) < MaxEnts
    /\ LET ds == IF calls[i].desired_state = None THEN "RUNNING"
                 ELSE calls[i].desired_state
           e == Len(ent) + 1
       IN  /\ ent' = Append(ent, PipeEntity(RaceName, SqsSource, SqsTarget, "role",
                                            RaceRegion, RaceAccount, ds, NoTags, now))
           /\ pipes' = [pipes EXCEPT ![<<RaceAccount, RaceRegion>>][RaceName] = e]
           /\ calls' = [calls EXCEPT ![i].pipe = e,
                                     ![i].pc = IF ds = "RUNNING" THEN "index" ELSE "else"]
    /\ UNCHANGED <<TAGS, workers, _pipe_workers, now, lastCall, lastOp, data, loops>>

\* start_pipe, stop_pipe, delete_pipe, update_pipe: pipe = self._get_pipe(context, name)
handler_get_pipe(i) ==
    /\ ThreadAt(i, {"start_pipe", "stop_pipe", "delete_pipe", "update_pipe"}, "get")
    /\ LET e == _get_pipe(RaceAccount, RaceRegion, RaceName)
       IN  IF e = 0
           THEN Return(i, "NotFoundException")
           ELSE calls' = [calls EXCEPT
                    ![i].pipe = e,
                    ![i].pc = IF calls[i].op \in {"start_pipe", "stop_pipe"}
                              THEN "conflict" ELSE "pop"]
    /\ UNCHANGED <<ctl, data, loops>>

\* start_pipe, stop_pipe: if pipe.desired_state == ...: raise ConflictException
handler_conflict(i) ==
    /\ ThreadAt(i, {"start_pipe", "stop_pipe"}, "conflict")
    /\ LET pipe == ent[calls[i].pipe]
           conflict == IF calls[i].op = "start_pipe" THEN start_pipe_conflict(pipe)
                       ELSE stop_pipe_conflict(pipe)
       IN  IF conflict THEN Return(i, "ConflictException") ELSE Jump(i, "set")
    /\ UNCHANGED <<ctl, data, loops>>

\* start_pipe, stop_pipe: pipe.desired_state = ...; pipe.last_modified_time = ...
handler_set_desired_state(i) ==
    /\ ThreadAt(i, {"start_pipe", "stop_pipe"}, "set")
    /\ LET start == calls[i].op = "start_pipe"
       IN  /\ ent' = [ent EXCEPT
                  ![calls[i].pipe].desired_state = IF start THEN "RUNNING" ELSE "STOPPED",
                  ![calls[i].pipe].last_modified_time = now]
           /\ Jump(i, IF start THEN "index" ELSE "pop")
    /\ UNCHANGED <<pipes, TAGS, workers, _pipe_workers, now, lastCall, lastOp, data, loops>>

\* _start_pipe_worker: worker = PipeWorkerFactory.create(pipe);
\* self._pipe_workers[pipe.name] = worker
_start_pipe_worker_index(i) ==
    /\ ThreadAt(i, {"create_pipe", "start_pipe", "update_pipe"}, "index")
    /\ Len(workers) < MaxWorkers
    /\ LET e == calls[i].pipe
           w == Len(workers) + 1
       IN  /\ workers' = Append(workers, PipeWorker(e))
           /\ _pipe_workers' = [_pipe_workers EXCEPT ![ent[e].name] = w]
           /\ calls' = [calls EXCEPT ![i].worker = w, ![i].pc = "start"]
    /\ UNCHANGED <<pipes, TAGS, ent, now, lastCall, lastOp, data, loops>>

\* _start_pipe_worker: worker.start(); the handler returns its response
_start_pipe_worker_start(i) ==
    /\ ThreadAt(i, {"create_pipe", "start_pipe", "update_pipe"}, "start")
    /\ LET S == PipeWorker_start(Here, calls[i].worker, TRUE)
       IN  /\ ent' = S.ent
           /\ workers' = S.workers
    /\ Return(i, "ok")
    /\ UNCHANGED <<pipes, TAGS, _pipe_workers, now, lastCall, lastOp, data, loops>>

\* the statement after _stop_pipe_worker in the handler
AfterStop(op) ==
    IF op = "stop_pipe" THEN "returned"
    ELSE IF op = "delete_pipe" THEN "mark" ELSE "fields"

\* _stop_pipe_worker: worker = self._pipe_workers.pop(pipe.name, None); if worker:
_stop_pipe_worker_pop(i) ==
    /\ ThreadAt(i, {"stop_pipe", "delete_pipe", "update_pipe"}, "pop")
    /\ LET n == ent[calls[i].pipe].name
           w == _pipe_workers[n]
           to == IF w # 0 THEN "stop" ELSE AfterStop(calls[i].op)
       IN  /\ _pipe_workers' = [_pipe_workers EXCEPT ![n] = 0]
           /\ calls' = [calls EXCEPT ![i].worker = w, ![i].pc = to,
                                     ![i].result = IF to = "returned" THEN "ok" ELSE @]
    /\ UNCHANGED <<pipes, TAGS, ent, workers, now, lastCall, lastOp, data, loops>>

\* _stop_pipe_worker: worker.stop()
_stop_pipe_worker_stop(i) ==
    /\ ThreadAt(i, {"stop_pipe", "delete_pipe", "update_pipe"}, "stop")
    /\ LET S == PipeWorker_stop(Here, calls[i].worker)
       IN  /\ ent' = S.ent
           /\ workers' = S.workers
    /\ Jump(i, "stopped")
    /\ UNCHANGED <<pipes, TAGS, _pipe_workers, now, lastCall, lastOp, data, loops>>

\* _stop_pipe_worker: pipe.current_state = PipeState.STOPPED
_stop_pipe_worker_stopped(i) ==
    /\ ThreadAt(i, {"stop_pipe", "delete_pipe", "update_pipe"}, "stopped")
    /\ ent' = [ent EXCEPT ![calls[i].pipe].current_state = "STOPPED"]
    /\ LET to == AfterStop(calls[i].op)
       IN  calls' = [calls EXCEPT ![i].pc = to,
                                  ![i].result = IF to = "returned" THEN "ok" ELSE @]
    /\ UNCHANGED <<pipes, TAGS, workers, _pipe_workers, now, lastCall, lastOp, data, loops>>

\* delete_pipe: pipe.current_state = DELETING; pipe.desired_state = "DELETED"; ...
delete_pipe_mark(i) ==
    /\ ThreadAt(i, {"delete_pipe"}, "mark")
    /\ ent' = [ent EXCEPT ![calls[i].pipe].current_state = "DELETING",
                          ![calls[i].pipe].desired_state = "DELETED",
                          ![calls[i].pipe].last_modified_time = now]
    /\ Jump(i, "del")
    /\ UNCHANGED <<pipes, TAGS, workers, _pipe_workers, now, lastCall, lastOp, data, loops>>

\* delete_pipe: store.TAGS.untag_resource(...); del store.pipes[name]
delete_pipe_del(i) ==
    /\ ThreadAt(i, {"delete_pipe"}, "del")
    /\ TAGS' = untag_resource_svc(TAGS, RaceAccount, arn(ent[calls[i].pipe]),
                                  TagKeys(ent[calls[i].pipe].tags))
    /\ IF pipes[<<RaceAccount, RaceRegion>>][RaceName] = 0
       THEN Return(i, "KeyError") /\ UNCHANGED pipes
       ELSE Return(i, "ok") /\ pipes' = del_pipes(RaceAccount, RaceRegion, RaceName)
    /\ UNCHANGED <<ent, workers, _pipe_workers, now, lastCall, lastOp, data, loops>>

\* update_pipe: pipe.role_arn = role_arn; if desired_state is not None: ...;
\* pipe.current_state = UPDATING; effective_desired = desired_state or pipe.desired_state
update_pipe_fields(i) ==
    /\ ThreadAt(i, {"update_pipe"}, "fields")
    /\ LET e == calls[i].pipe
           ds == calls[i].desired_state
           effective_desired == IF ds # None THEN ds ELSE ent[e].desired_state
       IN  /\ ent' = [ent EXCEPT ![e].role_arn = "role",
                                 ![e].desired_state = effective_desired,
                                 ![e].current_state = "UPDATING",
                                 ![e].last_modified_time = now]
           /\ Jump(i, IF effective_desired = "RUNNING" THEN "index" ELSE "else")
    /\ UNCHANGED <<pipes, TAGS, workers, _pipe_workers, now, lastCall, lastOp, data, loops>>

\* create_pipe, update_pipe: else: pipe.current_state = PipeState.STOPPED
handler_else_stopped(i) ==
    /\ ThreadAt(i, {"create_pipe", "update_pipe"}, "else")
    /\ ent' = [ent EXCEPT ![calls[i].pipe].current_state = "STOPPED"]
    /\ Return(i, "ok")
    /\ UNCHANGED <<pipes, TAGS, workers, _pipe_workers, now, lastCall, lastOp, data, loops>>

ThreadStep(i) ==
    \/ create_pipe_check(i)
    \/ create_pipe_store(i)
    \/ handler_get_pipe(i)
    \/ handler_conflict(i)
    \/ handler_set_desired_state(i)
    \/ _start_pipe_worker_index(i)
    \/ _start_pipe_worker_start(i)
    \/ _stop_pipe_worker_pop(i)
    \/ _stop_pipe_worker_stop(i)
    \/ _stop_pipe_worker_stopped(i)
    \/ delete_pipe_mark(i)
    \/ delete_pipe_del(i)
    \/ update_pipe_fields(i)
    \/ handler_else_stopped(i)

RaceNext ==
    \/ \E ds \in {None, "STOPPED"} : Request("create_pipe", ds)
    \/ \E op \in {"start_pipe", "stop_pipe", "delete_pipe"} : Request(op, None)
    \/ \E ds \in {None, "RUNNING", "STOPPED"} : Request("update_pipe", ds)
    \/ \E i \in 1..MaxThreads : ThreadStep(i)
    \/ \E w \in WorkerIds : WorkerStep(w)

RaceSpec == Init /\ [][RaceNext]_vars

\* ----------------------------------------------------------------- JSON values
\* A text is a tuple of tokens; a token stands for a run of characters that
\* is one of '<', '>', '.', '$', '{', a white space, or a word that holds none
\* of them; the keys aws.pipes.event and aws.pipes.event.json are one token each.
\* A value is tagged by its Python type:
\*   <<"str", text>>  <<"num", n>>  <<"bool", b>>  <<"null">>
\*   <<"obj", pairs>>  a dict, as the set of its <<key text, value>> pairs
\*   <<"arr", seq>>    a list
Str(text) == <<"str", text>>
Num(n) == <<"num", n>>
Bool(b) == <<"bool", b>>
Obj(pairs) == <<"obj", pairs>>
Arr(seq) == <<"arr", seq>>
Null == <<"null">>

\* dict.get(key, default)
dict_get(o, key, default) ==
    IF \E kv \in o[2] : kv[1] = key
    THEN (CHOOSE kv \in o[2] : kv[1] = key)[2]
    ELSE default

\* the least element of a non-empty set of numbers
Least(S) == CHOOSE i \in S : \A j \in S : i <= j

RECURSIVE split(_, _)
\* str.split(sep)
split(text, sep) ==
    LET at == {i \in 1..Len(text) : text[i] = sep}
    IN  IF at = {} THEN <<text>>
        ELSE <<SubSeq(text, 1, Least(at) - 1)>>
             \o split(SubSeq(text, Least(at) + 1, Len(text)), sep)

\* ----------------------------------------------------------------- input_transformer.py
Whitespace == {" ", "\n"}

\* str.strip()
strip(text) ==
    LET keep == {i \in 1..Len(text) : text[i] \notin Whitespace}
    IN  IF keep = {} THEN <<>>
        ELSE SubSeq(text, Least(keep), CHOOSE i \in keep : \A j \in keep : j <= i)

\* PIPE_PLACEHOLDER_PATTERN.fullmatch, pattern <(.*?)> : <<group 1>> when the
\* whole text matches, <<>> when it does not
fullmatch(text) ==
    IF /\ Len(text) >= 2
       /\ text[1] = "<"
       /\ text[Len(text)] = ">"
       /\ \A i \in 2..(Len(text) - 1) : text[i] # "\n"
    THEN <<SubSeq(text, 2, Len(text) - 1)>>
    ELSE <<>>

\* the positions where a match of <(.*?)> can start: a '<' whose first
\* following '>' comes before any newline
MatchStarts(text) ==
    {i \in 1..Len(text) :
        /\ text[i] = "<"
        /\ \E j \in (i + 1)..Len(text) :
               /\ text[j] = ">"
               /\ \A k \in (i + 1)..(j - 1) : text[k] \notin {">", "\n"}}

\* the end of the match that starts at i
MatchEnd(text, i) == Least({j \in (i + 1)..Len(text) : text[j] = ">"})

RECURSIVE findall(_)
\* PIPE_PLACEHOLDER_PATTERN.findall: the groups of the matches, left to right
findall(text) ==
    IF MatchStarts(text) = {} THEN <<>>
    ELSE LET i == Least(MatchStarts(text))
             j == MatchEnd(text, i)
         IN  <<SubSeq(text, i + 1, j - 1)>> \o findall(SubSeq(text, j + 1, Len(text)))

RECURSIVE walk(_, _)
\* the loop of _extract_jsonpath
walk(current, keys) ==
    IF keys = <<>> THEN current
    ELSE IF current[1] = "obj"
    THEN walk(dict_get(current, Head(keys), Str(<<>>)), Tail(keys))
    ELSE Str(<<>>)

_extract_jsonpath(event, path) ==
    IF ~(Len(path) >= 2 /\ path[1] = "$" /\ path[2] = ".")
    THEN Str(<<>>)
    ELSE walk(event, split(SubSeq(path, 3, Len(path)), "."))

\* A PipeInputTransformer is the record of its constructor arguments.
PipeInputTransformer(input_template) ==
    [input_template |-> input_template, pipe_arn |-> "pipe-arn", pipe_name |-> "p",
     source_arn |-> "source-arn", target_arn |-> "target-arn"]

\* _build_replacements followed by replacements.get(key, "")
replacements_get(T, event, key) ==
    LET placeholders == findall(T.input_template)
    IN  IF key = <<"aws.pipes.pipe-arn">> THEN Str(<<T.pipe_arn>>)
        ELSE IF key = <<"aws.pipes.pipe-name">> THEN Str(<<T.pipe_name>>)
        ELSE IF key = <<"aws.pipes.source-arn">> THEN Str(<<T.source_arn>>)
        ELSE IF key = <<"aws.pipes.target-arn">> THEN Str(<<T.target_arn>>)
        ELSE IF key = <<"aws.pipes.event.ingestion-time">> THEN Str(<<"ingestion-time">>)
        ELSE IF key \in {<<"aws.pipes.event.json">>, <<"aws.pipes.event">>} THEN event
        ELSE IF /\ \E i \in 1..Len(placeholders) : placeholders[i] = key
                /\ startswith(key, <<"$", ".">>)
        THEN _extract_jsonpath(event, key)
        ELSE Str(<<>>)

\* A string the transformer builds is <<"string", pieces>>; a piece is a token
\* of the template, <<"lit", token>>, or the text a value was turned into by
\* to_json_str, json.dumps or str.
replace_match(value) ==
    IF value[1] = "obj" THEN <<"to_json_str", value>>
    ELSE IF value[1] \in {"arr", "bool"} THEN <<"json.dumps", value>>
    ELSE <<"str()", value>>

RECURSIVE sub(_, _, _)
\* PIPE_PLACEHOLDER_PATTERN.sub(replace_match, text)
sub(T, event, text) ==
    IF MatchStarts(text) = {}
    THEN [i \in 1..Len(text) |-> <<"lit", text[i]>>]
    ELSE LET i == Least(MatchStarts(text))
             j == MatchEnd(text, i)
         IN  [k \in 1..(i - 1) |-> <<"lit", text[k]>>]
             \o <<replace_match(replacements_get(T, event, SubSeq(text, i + 1, j - 1)))>>
             \o sub(T, event, SubSeq(text, j + 1, Len(text)))

\* (mutant) the single-placeholder shortcut is missing: every template is
\* rendered to a string
_replace_placeholders_render(T, event) ==
    <<"string", sub(T, event, T.input_template)>>

\* _replace_placeholders.  No template of the inputs begins with '{' after
\* trimming, so the json.loads of the rendered string is never attempted.
_replace_placeholders(T, event) ==
    LET stripped == strip(T.input_template)
        single_match == fullmatch(stripped)
    IN  IF /\ single_match # <<>>
           /\ replacements_get(T, event, single_match[1])[1] \in {"obj", "arr"}
        THEN replacements_get(T, event, single_match[1])
        ELSE <<"string", sub(T, event, T.input_template)>>

transform(T, event) == _replace_placeholders(T, event)

\* ----------------------------------------------------------------- transformer inputs
\* white space around the placeholder: at most MaxPad tokens on each side
MaxPad == 1
\* keys of a dotted path: at most MaxDepth
MaxDepth == 2

RECURSIVE SeqsUpTo(_, _)
\* the sequences of at most n elements of set A
SeqsUpTo(A, n) ==
    IF n = 0 THEN {<<>>}
    ELSE SeqsUpTo(A, n - 1) \cup {Append(t, a) : t \in SeqsUpTo(A, n - 1), a \in A}

Pads == SeqsUpTo(Whitespace, MaxPad)

\* $.k1.k2...
PathOf(keys) == <<"$", ".">> \o JoinWith([i \in 1..Len(keys) |-> <<keys[i]>>], ".")

PlaceholderKeys ==
    {<<"aws.pipes.event.json">>, <<"aws.pipes.event">>, <<"aws.pipes.pipe-name">>,
     <<"x">>, <<"$", ".", "a", " ">>}
    \cup {PathOf(ks) : ks \in SeqsUpTo({"a", "b", "l"}, MaxDepth)}

\* one placeholder with white space around it; two placeholders; text before
\* a placeholder; a newline inside the brackets; an unclosed bracket
Templates ==
    {p1 \o <<"<">> \o k \o <<">">> \o p2 : p1 \in Pads, p2 \in Pads, k \in PlaceholderKeys}
    \cup {<<"<">> \o k \o <<">", "<", "aws.pipes.event", ">">> : k \in PlaceholderKeys}
    \cup {<<"x", "<">> \o k \o <<">">> : k \in PlaceholderKeys}
    \cup {<<"<">> \o k \o <<"\n", ">">> : k \in PlaceholderKeys}
    \cup {<<"<">> \o k : k \in PlaceholderKeys}

\* events: flat, nested with a list, empty, and with scalar members
XEvents ==
    {Obj({<< <<"a">>, Str(<<"b">>) >>}),
     Obj({<< <<"a">>, Obj({<< <<"b">>, Obj({<< <<"a">>, Str(<<"c">>) >>,
                                            << <<"l">>, Arr(<<Num(1)>>) >>}) >>,
                           << <<"l">>, Arr(<<>>) >>}) >>,
          << <<"l">>, Arr(<<Str(<<"x">>), Obj({})>>) >>}),
     Obj({}),
     Obj({<< <<"a">>, Num(7) >>, << <<"b">>, Bool(TRUE) >>, << <<"l">>, Null >>})}

\* ----------------------------------------------------------------- transformer runs
XformInit ==
    /\ CtlInit
    /\ request \in {[op |-> "transform", transformer |-> PipeInputTransformer(t), event |-> ev] :
                       t \in Templates, ev \in XEvents}
    /\ sent = <<>>
    /\ outcome = NoOutcome

\* PipeInputTransformer.transform(event) returns
PipeInputTransformer_transform ==
    /\ request.op = "transform"
    /\ outcome = NoOutcome
    /\ outcome' = transform(request.transformer, request.event)
    /\ UNCHANGED <<ctl, fine, request, sent>>

XformSpec == XformInit /\ [][PipeInputTransformer_transform]_vars

\* ----------------------------------------------------------------- pipe_event_processor.py
\* A raised exception is <<"raise", type, message>>.  The text of a data field
\* is <<"b64", t>>, the base64 encoding of text t, <<"json", v>>, the JSON
\* text of value v, or <<"str", t>>, a text that is neither base64 nor JSON.
Exc(type, message) == <<"raise", type, message>>
IsExc(x) == x[1] = "raise"

\* rounds of base64 decoding that _decode_data_field attempts
DECODE_ROUNDS == 3

RECURSIVE decode_rounds(_, _)
\* the loop of _decode_data_field with n rounds left: the value data ends as
decode_rounds(decoded, n) ==
    IF n = 0 THEN decoded
    ELSE IF decoded[1] # "b64" THEN decoded
    ELSE IF decoded[2][1] = "json" THEN decoded[2][2]
    ELSE decode_rounds(decoded[2], n - 1)

\* _decode_data_field: the decoded copy of the event, or the TypeError of the
\* membership test on an event that is not a dict
_decode_data_field(event) ==
    IF event[1] # "obj"
    THEN Exc("TypeError", "argument of type 'NoneType' is not iterable")
    ELSE IF ~\E kv \in event[2] : kv[1] = <<"data">>
    THEN event
    ELSE Obj({kv \in event[2] : kv[1] # <<"data">>}
             \cup {<< <<"data">>,
                      decode_rounds(dict_get(event, <<"data">>, Null), DECODE_ROUNDS) >>})

\* ----------------------------------------------------------------- targets
\* The replies of the target's service: setup is what building the client and
\* resolving the destination gives, replies[i] what the i-th delivery call
\* gives: <<"ok">>, <<"status", code>> (an HTTP response) or an exception.
to_json_str(value) == <<"to_json_str", value>>

\* the delivery call a target makes for one event
Delivery(kind, event) ==
    [call |-> IF kind = "sqs" THEN "send_message"
              ELSE IF kind = "kinesis" THEN "put_record"
              ELSE "requests.request",
     body |-> to_json_str(event)]

\* how many events a send loop gets to: up to the first delivery call that raises
Attempted(events, replies) ==
    LET raising == {i \in 1..Len(events) : IsExc(replies[i])}
    IN  IF raising = {} THEN Len(events) ELSE Least(raising)

\* (mutant) each delivery call is guarded: the loop goes on to the next event
\* and the first exception is raised at the end
send_guarded(kind, events, setup, replies) ==
    IF IsExc(setup)
    THEN [sent |-> <<>>, raised |-> setup]
    ELSE [sent |-> [i \in 1..Len(events) |-> Delivery(kind, events[i])],
          raised |-> IF \E i \in 1..Len(events) : IsExc(replies[i])
                     THEN replies[Attempted(events, replies)] ELSE <<>>]

\* SqsPipeTarget.send, KinesisPipeTarget.send, ApiDestinationPipeTarget.send:
\* the delivery calls made, and the exception raised (<<>> when none)
send(kind, events, setup, replies) ==
    IF IsExc(setup)
    THEN [sent |-> <<>>, raised |-> setup]
    ELSE LET n == Attempted(events, replies)
         IN  [sent |-> [i \in 1..n |-> Delivery(kind, events[i])],
              raised |-> IF n >= 1 /\ IsExc(replies[n]) THEN replies[n] ELSE <<>>]

\* (mutant) every exception is wrapped, CustomerInvocationError too
classify_wrap_all(e) == Exc("PipeInternalError", e[3])

\* the except clauses of process_events_batch
classify(e) ==
    IF e[2] = "CustomerInvocationError" THEN e ELSE Exc("PipeInternalError", e[3])

\* the first exception among the members of a sequence, <<>> when none
FirstExc(seq) ==
    LET at == {i \in 1..Len(seq) : IsExc(seq[i])}
    IN  IF at = {} THEN <<>> ELSE seq[Least(at)]

\* process_events_batch of a processor P = [target, input_transformer]: the
\* result, the event lists target.send was called with, the delivery calls
\* made and what the target raised
process_events_batch(P, input_events, setup, replies) ==
    LET events == [i \in 1..Len(input_events) |-> _decode_data_field(input_events[i])]
        transformed ==
            IF P.input_transformer # <<>>
            THEN [i \in 1..Len(events) |-> transform(P.input_transformer[1], events[i])]
            ELSE events
        R == send(P.target, transformed, setup, replies)
    IN  IF FirstExc(events) # <<>>
        THEN [result |-> classify(FirstExc(events)), send_calls |-> <<>>,
              sent |-> <<>>, target_raised |-> <<>>]
        ELSE [result |-> IF R.raised # <<>> THEN classify(R.raised) ELSE <<"return">>,
              send_calls |-> <<transformed>>,
              sent |-> R.sent, target_raised |-> R.raised]

\* ----------------------------------------------------------------- data path runs
\* events in a batch
MaxBatch == 2

DataEvents ==
    {Obj({<< <<"k">>, Num(1) >>}),
     Obj({<< <<"data">>, Obj({<< <<"k">>, Num(1) >>}) >>}),
     Obj({<< <<"data">>, <<"b64", <<"b64", <<"json", Obj({<< <<"k">>, Num(2) >>})>>>>>> >>}),
     Null}

Replies ==
    {<<"ok">>, <<"status", 500>>,
     Exc("CustomerInvocationError", "rejected"), Exc("ClientError", "unavailable")}

Setups == {<<"ok">>, Exc("ClientError", "no such destination")}

InputTransformers ==
    {<<>>, <<PipeInputTransformer(<<"<", "aws.pipes.event.json", ">">>)>>,
     <<PipeInputTransformer(<<"x", "<", "$", ".", "k", ">">>)>>}

\* the replies a target of the kind can get for a batch of n events
RepliesFor(kind, n) ==
    {r \in SeqsUpTo(Replies, MaxBatch) :
        /\ Len(r) = n
        /\ kind # "events" => \A i \in 1..n : r[i][1] # "status"}

DataInit ==
    /\ CtlInit
    /\ request \in
         {[op |-> "process_events_batch", target |-> k, input_transformer |-> t,
           input_events |-> b, setup |-> su, replies |-> r] :
              k \in {"sqs", "events"}, t \in InputTransformers,
              b \in SeqsUpTo(DataEvents, MaxBatch), su \in Setups,
              r \in SeqsUpTo(Replies, MaxBatch)}
         \cup {[op |-> "send", target |-> k, events |-> b, setup |-> su, replies |-> r] :
                  k \in {"sqs", "kinesis", "events"},
                  b \in SeqsUpTo(DataEvents, MaxBatch), su \in Setups,
                  r \in SeqsUpTo(Replies, MaxBatch)}
    /\ request.replies \in
         RepliesFor(request.target,
                    Len(IF request.op = "send" THEN request.events
                        ELSE request.input_events))
    /\ sent = <<>>
    /\ outcome = NoOutcome

\* PipeEventProcessor.process_events_batch(input_events) returns or raises
PipeEventProcessor_process_events_batch ==
    /\ request.op = "process_events_batch"
    /\ outcome = NoOutcome
    /\ LET R == process_events_batch(
                    [target |-> request.target,
                     input_transformer |-> request.input_transformer],
                    request.input_events, request.setup, request.replies)
       IN  /\ sent' = R.sent
           /\ outcome' = <<"done", R.result, R.send_calls, R.target_raised>>
    /\ UNCHANGED <<ctl, fine, request>>

\* PipeTarget.send(events) returns or raises
PipeTarget_send ==
    /\ request.op = "send"
    /\ outcome = NoOutcome
    /\ LET R == send(request.target, request.events, request.setup, request.replies)
       IN  /\ sent' = R.sent
           /\ outcome' = <<"done", IF R.raised # <<>> THEN R.raised ELSE <<"return">>,
                           <<request.events>>, R.raised>>
    /\ UNCHANGED <<ctl, fine, request>>

DataNext == PipeEventProcessor_process_events_batch \/ PipeTarget_send

DataSpec == DataInit /\ [][DataNext]_vars

\* ----------------------------------------------------------------- the poll loop, statement by statement
\* failed polls of a worker without a successful one in between
MaxFails == 10

PollOutcomes == {"returns", "EmptyPollResultsException", "Exception"}

\* (mutant) EmptyPollResultsException is handled like any other exception
try_poll_events_empty_backs_off(L, how) ==
    IF how = "returns"
    THEN [L EXCEPT !.error_backoff = reset(@),
                   !.poll_interval = PIPES_POLL_INTERVAL_SEC]
    ELSE [L EXCEPT !.poll_interval = next_backoff(L.error_backoff).interval,
                   !.error_backoff = next_backoff(L.error_backoff).backoff]

\* the try statement of the loop body, poll_events ending as how says: the
\* locals when the finally clause is reached
try_poll_events(L, how) ==
    IF how = "returns"
    THEN [L EXCEPT !.error_backoff = reset(@),
                   !.poll_interval = PIPES_POLL_INTERVAL_SEC]
    ELSE IF how = "EmptyPollResultsException"
    THEN [L EXCEPT !.poll_interval = PIPES_POLL_INTERVAL_SEC]
    ELSE [L EXCEPT !.poll_interval = next_backoff(L.error_backoff).interval,
                   !.error_backoff = next_backoff(L.error_backoff).backoff]

\* (mutant) the finally clause sleeps with time.sleep
Event_wait_sleep(is_set, timeout) == [timeout |-> timeout, ran_out |-> TRUE]

\* threading.Event.wait(timeout) returning: at once or early when the event is
\* set, after the timeout when it is not
Event_wait(is_set, timeout) == [timeout |-> timeout, ran_out |-> ~is_set]

\* self.poller.poll_events() returns or raises, and the except clauses run
_poll_loop_poll_events(w, how) ==
    /\ At(w, "poll")
    /\ how = "Exception" => loops[w].fails < MaxFails
    /\ loops' = [loops EXCEPT ![w] =
         [try_poll_events(@, how) EXCEPT
             !.late = IF workers[w].shutdown /\ @ < 2 THEN @ + 1 ELSE @,
             !.fails = IF how = "returns" THEN 0
                       ELSE IF how = "Exception" THEN @ + 1 ELSE @,
             !.last = how]]
    /\ Goto(w, "wait")
    /\ lastCall' = NoCall
    /\ UNCHANGED <<pipes, TAGS, ent, _pipe_workers, now, lastOp, data, calls>>

\* self._shutdown_event.wait(poll_interval) returns
_poll_loop_wait(w) ==
    /\ At(w, "wait")
    /\ loops' = [loops EXCEPT ![w].slept = Event_wait(workers[w].shutdown,
                                                       loops[w].poll_interval),
                               ![w].waits = 1]
    /\ Goto(w, "loop")
    /\ lastCall' = NoCall
    /\ UNCHANGED <<pipes, TAGS, ent, _pipe_workers, now, lastOp, data, calls>>

LoopStep(w) ==
    \/ _poll_loop_enter(w)
    \/ _poll_loop_test(w)
    \/ \E how \in PollOutcomes : _poll_loop_poll_events(w, how)
    \/ _poll_loop_wait(w)
    \/ _poll_loop_close(w)
    \/ _poll_loop_stopped(w)

\* the state at the return of the second of create_pipe(p) and create_pipe(q),
\* both with desired state RUNNING, in one partition
LoopInit ==
    LET account == "000000000000"
        region == "us-east-1"
        e1 == PipeEntity(<<"p">>, SqsSource, SqsTarget, "role", region, account,
                         "RUNNING", NoTags, 1)
        e2 == PipeEntity(<<"q">>, SqsSource, SqsTarget, "role", region, account,
                         "RUNNING", NoTags, 2)
        S0 == [ent |-> <<e1>>, workers |-> <<>>, idx |-> [n \in StoreNames |-> 0]]
        S1 == _start_pipe_worker(S0, 1, TRUE)
        S2 == _start_pipe_worker([S1 EXCEPT !.ent = Append(@, e2)], 2, TRUE)
        created(w) == [op |-> "create_pipe", pre |-> "CREATING", post |-> "STARTING",
                       stopped |-> 0, started |-> w]
    IN  /\ pipes = [pt \in Parts |-> [n \in StoreNames |->
                        IF pt # <<account, region>> THEN 0
                        ELSE IF n = <<"p">> THEN 1 ELSE IF n = <<"q">> THEN 2 ELSE 0]]
        /\ TAGS = [a \in Accounts |-> [x \in TagArns |-> {}]]
        /\ ent = S2.ent
        /\ workers = S2.workers
        /\ _pipe_workers = S2.idx
        /\ now = 2
        /\ lastCall = CallWith("create_pipe", account, region, <<"q">>, "ok",
                               Response(S2.ent[2]), "RUNNING")
        /\ lastOp = <<created(1), created(2)>>
        /\ loops = [w \in WorkerIds |-> LoopLocals]
        /\ calls = <<>>
        /\ request = NoRequest
        /\ sent = <<>>
        /\ outcome = NoOutcome

\* the two pipes are stopped while their workers run
LoopNext ==
    \/ \E n \in {<<"p">>, <<"q">>} : stop_pipe("000000000000", "us-east-1", n)
    \/ \E w \in WorkerIds : LoopStep(w)

LoopSpec == LoopInit /\ [][LoopNext]_vars

\* ----------------------------------------------------------------- HTTP destination runs
\* what requests.request gives for one event: a response with a status code,
\* or an exception of the connection
\* the response that reports an authentication failure: 401 Unauthorized
Unauthorized == <<"status", 401>>

HttpReplies ==
    {<<"status", 200>>, <<"status", 400>>, Unauthorized,
     <<"status", 404>>, <<"status", 500>>,
     Exc("ConnectionError", "connection refused"), Exc("Timeout", "timed out")}

HttpInit ==
    /\ CtlInit
    /\ request \in
         {[op |-> "send", target |-> "events", events |-> b, setup |-> <<"ok">>,
           replies |-> r] :
              b \in SeqsUpTo(DataEvents, MaxBatch), r \in SeqsUpTo(HttpReplies, MaxBatch)}
    /\ Len(request.replies) = Len(request.events)
    /\ sent = <<>>
    /\ outcome = NoOutcome

HttpSpec == HttpInit /\ [][PipeTarget_send]_vars

\* ----------------------------------------------------------------- decoding runs
\* base64 layers around the text of a data field
MaxLayers == 4

RECURSIVE Layers(_, _)
\* the text t encoded k times
Layers(t, k) == IF k = 0 THEN t ELSE <<"b64", Layers(t, k - 1)>>

DataObjects ==
    {Obj({}), Obj({<< <<"k">>, Num(1) >>}),
     Obj({<< <<"data">>, <<"b64", <<"json", Obj({})>>>> >>})}

\* the values of the data field: objects, other JSON values, and texts under
\* zero to MaxLayers layers of base64
DataValues ==
    DataObjects \cup {Num(1), Null, Arr(<<Num(1)>>)}
    \cup {Layers(t, k) : k \in 0..MaxLayers,
                         t \in {<<"json", o>> : o \in DataObjects \cup {Num(1)}}
                               \cup {<<"str", <<"x">>>>}}

DecodeEvents ==
    {Obj(rest \cup {<< <<"data">>, v >>}) :
        rest \in {{}, {<< <<"k">>, Num(1) >>}}, v \in DataValues}
    \cup {Obj({}), Obj({<< <<"k">>, Num(1) >>}), Null}

\* (mutant) the record is not copied: the assignment to data is made on the
\* caller's record
caller_record_shared(event) ==
    IF IsExc(_decode_data_field(event)) THEN event ELSE _decode_data_field(event)

\* event = dict(event): the caller's record after the call; the assignments
\* to data are made on the copy
caller_record(event) == event

DecodeInit ==
    /\ CtlInit
    /\ request \in {[op |-> "decode", given |-> e, event |-> e] : e \in DecodeEvents}
    /\ sent = <<>>
    /\ outcome = NoOutcome

\* _decode_data_field(event) returns or raises; the caller then decodes the
\* returned record once more
decode_data_field ==
    /\ request.op = "decode"
    /\ outcome = NoOutcome
    /\ LET first == _decode_data_field(request.event)
       IN  outcome' = <<"done", first,
                        IF IsExc(first) THEN first ELSE _decode_data_field(first)>>
    /\ request' = [request EXCEPT !.event = caller_record(request.event)]
    /\ UNCHANGED <<ctl, fine, sent>>

DecodeSpec == DecodeInit /\ [][decode_data_field]_vars

\* ----------------------------------------------------------------- pipe_worker_factory.py, parameters
\* A parameter group is a JSON object; an optional one is <<>> (None) or <<o>>.
has_key(o, key) == \E kv \in o[2] : kv[1] = key

dict_set(o, key, value) == Obj({kv \in o[2] : kv[1] # key} \cup {<<key, value>>})

setdefault(o, key, value) == IF has_key(o, key) THEN o ELSE dict_set(o, key, value)

\* the stream defaults of _create_poller under the key of the service
stream_defaults(source_parameters, key) ==
    LET sp == IF has_key(source_parameters, key)
              THEN source_parameters
              ELSE dict_set(source_parameters, key, Obj({}))
        group == setdefault(setdefault(dict_get(sp, key, Null),
                                       <<"StartingPosition">>, Str(<<"TRIM_HORIZON">>)),
                            <<"BatchSize">>, Num(100))
    IN  dict_set(sp, key, group)

\* _create_poller: the source_parameters dict as the poller is given it, after
\* the assignments made on it; <<"raise", ...>> for an unsupported service
_create_poller_parameters(service, source_parameters) ==
    IF service = "sqs"
    THEN setdefault(source_parameters, <<"SqsQueueParameters">>, Obj({}))
    ELSE IF service = "kinesis"
    THEN stream_defaults(source_parameters, <<"KinesisStreamParameters">>)
    ELSE IF service = "dynamodb"
    THEN stream_defaults(source_parameters, <<"DynamoDBStreamParameters">>)
    ELSE Exc("ValueError", "Unsupported source service")

\* source_parameters = pipe.source_parameters or {}: the dict, and whether it
\* is the entity's own object
source_parameters_or_empty(stored) ==
    IF stored # <<>> /\ stored[1][2] # {}
    THEN [dict |-> stored[1], shared |-> TRUE]
    ELSE [dict |-> Obj({}), shared |-> FALSE]

\* PipeWorkerFactory.create(pipe): whether a worker is returned, the parameters
\* its poller holds, and the entity's parameter groups after the call
PipeWorkerFactory_create_parameters(pipe) ==
    LET sp == source_parameters_or_empty(pipe.source_parameters)
        given == _create_poller_parameters(_service_from_arn(pipe.source), sp.dict)
    IN  IF ~PipeTargetFactory_create(pipe.target)
        THEN [built |-> FALSE, poller |-> Null,
              source_parameters |-> pipe.source_parameters,
              target_parameters |-> pipe.target_parameters]
        ELSE IF IsExc(given)
        THEN [built |-> FALSE, poller |-> Null,
              source_parameters |-> pipe.source_parameters,
              target_parameters |-> pipe.target_parameters]
        ELSE [built |-> TRUE, poller |-> given,
              source_parameters |-> IF sp.shared THEN <<given>> ELSE pipe.source_parameters,
              target_parameters |-> pipe.target_parameters]

KinesisSource == <<"arn", "aws", "kinesis", "us-east-1", "000000000000", <<"stream", "s">>>>
DynamoDBSource ==
    <<"arn", "aws", "dynamodb", "us-east-1", "000000000000", <<"table", "t", "stream", "1">>>>
S3Source == <<"arn", "aws", "s3", "", "", <<"bucket">>>>

ParamSources == {SqsSource, KinesisSource, DynamoDBSource, S3Source}

StreamGroups ==
    {Obj({}), Obj({<< <<"StartingPosition">>, Str(<<"LATEST">>) >>}),
     Obj({<< <<"StartingPosition">>, Str(<<"LATEST">>) >>, << <<"BatchSize">>, Num(10) >>})}

\* the source_parameters argument of create_pipe
SourceParameterInputs ==
    {<<>>, <<Obj({})>>, <<Obj({<< <<"FilterCriteria">>, Obj({}) >>})>>,
     <<Obj({<< <<"SqsQueueParameters">>, Obj({<< <<"BatchSize">>, Num(5) >>}) >>})>>}
    \cup {<<Obj({<< <<"KinesisStreamParameters">>, g >>})>> : g \in StreamGroups}
    \cup {<<Obj({<< <<"DynamoDBStreamParameters">>, g >>})>> : g \in StreamGroups}

\* the target_parameters argument of create_pipe
TargetParameterInputs ==
    {<<>>, <<Obj({})>>, <<Obj({<< <<"InputTemplate">>, Str(<<"x">>) >>})>>,
     <<Obj({<< <<"SqsQueueParameters">>, Obj({<< <<"MessageGroupId">>, Str(<<"g">>) >>}) >>})>>}

ParamInit ==
    /\ CtlInit
    /\ request \in
         {[op |-> "create_worker", source |-> src, target |-> tgt,
           source_parameters |-> sp, target_parameters |-> tp] :
              src \in ParamSources, tgt \in Targets,
              sp \in SourceParameterInputs, tp \in TargetParameterInputs}
    /\ sent = <<>>
    /\ outcome = NoOutcome

\* a handler stores the entity with the caller's parameter groups and calls
\* PipeWorkerFactory.create(pipe); describe_pipe then returns the entity's
\* SourceParameters and TargetParameters
PipeWorkerFactory_create_describe ==
    /\ request.op = "create_worker"
    /\ outcome = NoOutcome
    /\ LET R == PipeWorkerFactory_create_parameters(request)
       IN  outcome' = <<"done", [SourceParameters |-> R.source_parameters,
                                 TargetParameters |-> R.target_parameters],
                        R.built, R.poller>>
    /\ UNCHANGED <<ctl, fine, request, sent>>

ParamSpec == ParamInit /\ [][PipeWorkerFactory_create_describe]_vars

\* ----------------------------------------------------------------- name validation
\* create_pipe over the name inputs
NameNext ==
    \E pt \in Parts, n \in NameInputs, ds \in {None, "STOPPED"}, tg \in CreateTags :
        create_pipe(pt[1], pt[2], n, SqsSource, SqsTarget, "role", ds, tg, TRUE)

NameSpec == Init /\ [][NameNext]_vars

\* ----------------------------------------------------------------- tags
\* the tags arguments
TagArgs == {{<<"k", "v">>}, {<<"k", "w">>, <<"j", "v">>}}
TagKeyArgs == {{"k"}, {"j", "x"}}

\* the lifecycle operations and the tag operations, without the worker threads
TagNext ==
    \/ \E pt \in Parts, n \in Names, ds \in {"RUNNING", "STOPPED"},
          tg \in CreateTags \cup {NoTags, <<{}>>} :
            create_pipe(pt[1], pt[2], n, SqsSource, SqsTarget, "role", ds, tg, TRUE)
    \/ \E pt \in Parts, n \in Names : delete_pipe(pt[1], pt[2], n)
    \/ \E pt \in Parts, n \in Names : describe_pipe(pt[1], pt[2], n)
    \/ \E pt \in Parts, n \in Names : start_pipe(pt[1], pt[2], n, TRUE)
    \/ \E pt \in Parts, n \in Names : stop_pipe(pt[1], pt[2], n)
    \/ \E pt \in Parts, n \in Names, ds \in {None, "STOPPED"} :
            update_pipe(pt[1], pt[2], n, "role2", ds, <<>>, TRUE)
    \/ \E pt \in Parts, a \in ArnInputs, tg \in TagArgs :
            tag_resource(pt[1], pt[2], a, tg)
    \/ \E pt \in Parts, a \in ArnInputs, ks \in TagKeyArgs :
            untag_resource(pt[1], pt[2], a, ks)
    \/ \E pt \in Parts, a \in ArnInputs : list_tags_for_resource(pt[1], pt[2], a)

TagSpec == Init /\ [][TagNext]_vars

\* ----------------------------------------------------------------- listing
\* the arguments of list_pipes
NamePrefixes == {<<>>, <<<<>>>>, <<<<"p">>>>}
SourcePrefixes == {<<>>, <<<<"arn", "aws", "kinesis">>>>}
TargetPrefixes == {<<>>, <<<<"arn", "aws", "sqs">>>>}
Limits == {<<>>, <<0>>, <<1>>, <<101>>}

\* pipes are created and deleted, and listed
ListNext ==
    \/ \E pt \in Parts, n \in ListNames, t \in Targets, ds \in {"RUNNING", "STOPPED"},
          tg \in CreateTags :
            create_pipe(pt[1], pt[2], n, SqsSource, t, "role", ds, tg, TRUE)
    \/ \E pt \in Parts, n \in ListNames : delete_pipe(pt[1], pt[2], n)
    \/ \E pt \in Parts, np \in NamePrefixes, ds \in {None, "RUNNING"},
          cs \in {None, "STOPPED"}, sp \in SourcePrefixes, tp \in TargetPrefixes,
          lim \in Limits :
            list_pipes(pt[1], pt[2], np, ds, cs, sp, tp, lim)

ListSpec == Init /\ [][ListNext]_vars

\* ----------------------------------------------------------------- properties
\* the entities that are in their partition's store
Live == {e \in DOMAIN ent : pipes[<<ent[e].account_id, ent[e].region>>][ent[e].name] = e}

\* the workers built for entity e that the worker index holds
RegisteredFor(e) ==
    {w \in DOMAIN workers : workers[w].pipe = e /\ _pipe_workers[ent[e].name] = w}

\* this step is an API call (it returns or raises)
CallStep == lastCall' # NoCall /\ (lastCall' # lastCall \/ now' # now)

\* the partition an API call addressed
PartOf(c) == <<c.account, c.region>>

\* C1: in every reachable state a pipe in the store has at most one worker of
\* its own registered in the worker index, and none when its desired_state
\* is STOPPED.
C1_WorkerPerDesiredState ==
    \A e \in Live :
        /\ Cardinality(RegisteredFor(e)) <= 1
        /\ ent[e].desired_state = "STOPPED" => RegisteredFor(e) = {}

\* a pipe that had a worker was stopped and is still in the store
C1_Witness ==
    \E e \in Live :
        /\ ent[e].desired_state = "STOPPED"
        /\ lastOp[e].op = "stop_pipe"
        /\ lastOp[e].stopped # 0
        /\ workers[lastOp[e].stopped].pipe = e

\* C2: an API call on a pipe of one (account, region) partition never stops,
\* replaces or unregisters the worker registered for a pipe of another
\* partition, and never changes that pipe's current_state.
C2_PartitionLocal ==
    [][CallStep =>
        \A e \in DOMAIN ent :
            <<ent[e].account_id, ent[e].region>> # PartOf(lastCall') =>
                /\ ent'[e].current_state = ent[e].current_state
                /\ \A w \in RegisteredFor(e) :
                       /\ _pipe_workers'[ent[e].name] = w
                       /\ workers'[w].shutdown = workers[w].shutdown]_vars

\* the last operation completed on entity e was a start_pipe that found the
\* pipe STOPPED and built and started a worker for it
StartedFromStopped(e) ==
    /\ e \in DOMAIN ent
    /\ lastOp[e].op = "start_pipe"
    /\ lastOp[e].pre = "STOPPED"
    /\ lastOp[e].post = "STARTING"

\* the workers built for entity e whose thread was started
ThreadsOf(e) == {w \in DOMAIN workers : workers[w].pipe = e /\ workers[w].pc # "new"}

\* every thread of e is at rest: a cancelled one has finished, any other is
\* in its poll loop
Settled(e) ==
    \A w \in ThreadsOf(e) :
        IF workers[w].shutdown THEN workers[w].pc = "done"
        ELSE workers[w].pc \in {"loop", "poll"}

\* C3: after start_pipe on a STOPPED pipe whose worker can be built, with no
\* later control-plane operation on the pipe, current_state is RUNNING once
\* the pipe's worker threads are at rest, whatever preceded the start.
C3_StartConverges ==
    \A e \in DOMAIN ent :
        (StartedFromStopped(e) /\ Settled(e)) => ent[e].current_state = "RUNNING"

\* the last operation completed on entity e was a stop_pipe that found the
\* pipe RUNNING
StoppedFromRunning(e) ==
    /\ e \in DOMAIN ent
    /\ lastOp[e].op = "stop_pipe"
    /\ lastOp[e].pre = "RUNNING"

\* current_state is STOPPED, every poll loop of e has exited and closed its poller
Converged(e) ==
    /\ ent[e].current_state = "STOPPED"
    /\ \A w \in ThreadsOf(e) : workers[w].pc = "done" /\ workers[w].closed = 1

\* C4: after stop_pipe on a RUNNING pipe, with no later control-plane
\* operation on it, eventually current_state is STOPPED, the worker's poll
\* loop has exited and poller.close() has been called, and it stays so.
C4_StopConverges ==
    \A e \in 1..MaxEnts :
        /\ StoppedFromRunning(e) ~> (~StoppedFromRunning(e) \/ Converged(e))
        /\ [](StoppedFromRunning(e) /\ Converged(e)
                 => [](StoppedFromRunning(e) => Converged(e)))

\* C5: stop_pipe returns with CurrentState STOPPING when it stopped a worker,
\* and current_state STOPPED is observable after a stop only once the poll
\* loops of the pipe have exited and closed their pollers.
C5_StoppedOnlyAfterExit ==
    /\ (/\ lastCall.op = "stop_pipe"
        /\ lastCall.result = "ok"
        /\ \E e \in Live : ent[e].name = lastCall.name
                            /\ <<ent[e].account_id, ent[e].region>> = PartOf(lastCall)
                            /\ lastOp[e].stopped # 0)
       => lastCall.resp.CurrentState = "STOPPING"
    /\ \A e \in Live :
           (lastOp[e].op = "stop_pipe" /\ ent[e].current_state = "STOPPED")
           => \A w \in ThreadsOf(e) : workers[w].pc \in {"closed", "done"}

\* the entity an API call addressed, looked up before the call (0 when none)
Target(c) == _get_pipe(c.account, c.region, c.name)

Frame == UNCHANGED <<pipes, TAGS, ent, workers, _pipe_workers>>

C7_DuplicateCreate ==
    [][(/\ CallStep
        /\ lastCall'.op = "create_pipe"
        /\ lastCall'.name \in Names
        /\ Target(lastCall') # 0)
       => (lastCall'.result = "ConflictException" /\ Frame)]_vars

\* create_pipe has just raised ConflictException on a pipe whose worker is
\* registered
C7_Witness ==
    /\ lastCall.op = "create_pipe"
    /\ lastCall.result = "ConflictException"
    /\ \E e \in Live : /\ ent[e].name = lastCall.name
                       /\ <<ent[e].account_id, ent[e].region>> = PartOf(lastCall)
                       /\ RegisteredFor(e) # {}

\* C8: delete_pipe returns CurrentState DELETING and DesiredState DELETED,
\* removes the entry and leaves no worker of the pipe registered; and while a
\* name is not in the store, describe_pipe, start_pipe, stop_pipe, update_pipe
\* and delete_pipe on it raise NotFoundException and change nothing.
C8_DeleteThenNotFound ==
    [][CallStep =>
        /\ (lastCall'.op = "delete_pipe" /\ lastCall'.result = "ok")
           => LET e == Target(lastCall')
              IN  /\ e # 0
                  /\ lastCall'.resp.CurrentState = "DELETING"
                  /\ lastCall'.resp.DesiredState = "DELETED"
                  /\ pipes'[PartOf(lastCall')][lastCall'.name] = 0
                  /\ \A w \in DOMAIN workers' :
                         workers'[w].pipe = e => _pipe_workers'[ent[e].name] # w
        /\ (/\ lastCall'.op \in {"describe_pipe", "start_pipe", "stop_pipe",
                                 "update_pipe", "delete_pipe"}
            /\ Target(lastCall') = 0)
           => (lastCall'.result = "NotFoundException" /\ Frame)]_vars

\* a call on the name of a deleted pipe has just raised NotFoundException
C8_Witness ==
    /\ lastCall.op \in {"describe_pipe", "start_pipe", "stop_pipe", "update_pipe",
                        "delete_pipe"}
    /\ lastCall.result = "NotFoundException"
    /\ \E e \in DOMAIN ent : /\ lastOp[e].op = "delete_pipe"
                             /\ lastOp[e].stopped # 0
                             /\ ent[e].name = lastCall.name
                             /\ <<ent[e].account_id, ent[e].region>> = PartOf(lastCall)

\* the entity a call that succeeds works on: the one create_pipe constructs,
\* the one the other calls look up
Subject(c) == IF c.op = "create_pipe" THEN Len(ent) + 1 ELSE Target(c)

\* the call has tried to start a worker for entity e
TriedStart(c, e) ==
    /\ c.op \in {"create_pipe", "start_pipe", "update_pipe"}
    /\ c.result = "ok"
    /\ ent'[e].desired_state = "RUNNING"

\* the worker of that call could not be built, or its thread not be started
StartFailed(e) ==
    \/ ~PipeWorkerFactory_create(ent'[e])
    \/ Len(workers') > Len(workers) /\ workers'[Len(workers')].pc = "new"

C10_UnsupportedTargetRaises ==
    [][(/\ CallStep
        /\ lastCall'.op \in {"create_pipe", "update_pipe"}
        /\ lastCall'.result = "ok")
       => PipeTargetFactory_create(ent'[pipes'[PartOf(lastCall')][lastCall'.name]].target)]_vars

\* C11: create_pipe raises ValidationException exactly for the names that do
\* not have between 1 and 64 characters, all of them among '.', '-', '_',
\* letters and digits (a name that ends in a newline is such a name), and a
\* call that raises it changes neither the store, the tags nor the worker
\* index.
C11_NameValidation ==
    [][(CallStep /\ lastCall'.op = "create_pipe")
       => LET name == lastCall'.name
              valid == /\ Len(name) >= 1
                       /\ Len(name) <= 64
                       /\ \A i \in 1..Len(name) : name[i] \in NameChars
          IN  /\ lastCall'.result = "ValidationException" <=> ~valid
              /\ ~valid => Frame]_vars

\* C12: every update_pipe, start_pipe, stop_pipe, delete_pipe, tag_resource
\* and untag_resource that succeeds leaves the pipe's last_modified_time at
\* the time of that call.
C12_LastModified ==
    [][(/\ CallStep
        /\ lastCall'.result = "ok"
        /\ lastCall'.op \in {"update_pipe", "start_pipe", "stop_pipe", "delete_pipe",
                              "tag_resource", "untag_resource"})
       => ent'[Target(lastCall')].last_modified_time = now']_vars

\* the values of current_state, and the edges of the state machine
PipeStates ==
    {"CREATING", "STARTING", "RUNNING", "STOPPING", "STOPPED", "UPDATING",
     "DELETING", "CREATE_FAILED", "STOP_FAILED"}

Edges ==
    {<<"CREATING", "STARTING">>, <<"STARTING", "RUNNING">>,
     <<"STARTING", "CREATE_FAILED">>, <<"RUNNING", "STOPPING">>,
     <<"STOPPING", "STOPPED">>, <<"UPDATING", "STARTING">>, <<"UPDATING", "STOPPED">>}
    \cup {<<s, "UPDATING">> : s \in PipeStates}
    \cup {<<s, "DELETING">> : s \in PipeStates}

\* C13: every change of a pipe's current_state made by a step of a worker
\* thread (each such step is a single write) follows an edge of the state
\* machine; in particular a thread that enters its poll loop moves the pipe to
\* RUNNING only from STARTING.
C13_StateMachineEdges ==
    [][\A w \in WorkerIds :
          WorkerStep(w) =>
              \A e \in DOMAIN ent :
                  ent'[e].current_state # ent[e].current_state
                  => <<ent[e].current_state, ent'[e].current_state>> \in Edges]_vars

\* the worker threads of entity e that have not been told to stop
Running(e) ==
    {w \in DOMAIN workers :
        workers[w].pipe = e /\ workers[w].pc # "new" /\ ~workers[w].shutdown}

\* what update_pipe(name, role_arn, desired_state, target) on entity e must
\* have done when it returns
UpdateDone(e, role_arn, desired_state, target) ==
    LET old == ent[e]
        new == ent'[e]
        effective == IF desired_state # None THEN desired_state ELSE old.desired_state
        mine == {w \in DOMAIN workers' :
                    workers'[w].pipe = e /\ _pipe_workers'[old.name] = w}
    IN  \* the existing worker is stopped and unregistered
        /\ \A w \in Running(e) : workers'[w].shutdown /\ w \notin mine
        \* exactly the non-null fields are overwritten
        /\ new.role_arn = role_arn
        /\ new.desired_state = effective
        /\ new.target = IF target # <<>> THEN target ELSE old.target
        /\ new.name = old.name /\ new.source = old.source
        /\ new.region = old.region /\ new.account_id = old.account_id
        /\ new.tags = old.tags /\ new.creation_time = old.creation_time
        /\ pipes' = pipes /\ TAGS' = TAGS
        \* the pipe is not left in UPDATING
        /\ new.current_state # "UPDATING"
        /\ IF effective = "RUNNING"
           THEN /\ Len(workers') = Len(workers) + 1
                /\ mine = {Len(workers')}
                /\ workers'[Len(workers')].pc = "spawned"
                /\ ~workers'[Len(workers')].shutdown
           ELSE /\ mine = {}
                /\ Len(workers') = Len(workers)
                /\ new.current_state = "STOPPED"

\* C14: every update_pipe that returns has stopped and unregistered the
\* pipe's running worker, has overwritten role_arn and exactly the other
\* fields passed as non-null, and leaves the pipe out of UPDATING: with
\* effective desired state RUNNING exactly one new worker is registered for
\* the pipe and started, otherwise none is registered and current_state is
\* STOPPED.
C14_UpdateOutcome ==
    [][\A pt \in Parts, n \in Names, r \in Roles, ds \in {None, "RUNNING", "STOPPED"},
          t \in Targets \cup {<<>>}, ok \in BOOLEAN :
          (update_pipe(pt[1], pt[2], n, r, ds, t, ok) /\ lastCall'.result = "ok")
          => UpdateDone(pipes[pt][n], r, ds, t)]_vars

\* a listed pipe satisfies the filters of list_pipes call c
Satisfies(p, c) ==
    /\ c.name_prefix # <<>> => startswith(p.Name, c.name_prefix[1])
    /\ c.desired_state # None => p.DesiredState = c.desired_state
    /\ c.current_state # None => p.CurrentState = c.current_state
    /\ c.source_prefix # <<>> => arn_startswith(p.Source, c.source_prefix[1])
    /\ c.target_prefix # <<>> => arn_startswith(p.Target, c.target_prefix[1])

\* C15: list_pipes returns only pipes that satisfy every supplied filter, at
\* most min(limit, 100) of them when a limit is given and at most 100 when
\* none is, and changes no state.
C15_ListPipes ==
    [][(CallStep /\ lastCall'.op = "list_pipes")
       => LET c == lastCall'
              ps == c.resp.Pipes
              cap == IF c.limit = <<>> THEN 100
                     ELSE IF c.limit[1] < 100 THEN c.limit[1] ELSE 100
          IN  /\ \A i \in 1..Len(ps) : Satisfies(ps[i], c)
              /\ Len(ps) <= cap
              /\ Frame]_vars

\* C16: in every reachable state the tags mirrored on a pipe in the store
\* (those describe_pipe returns) are the tags the tag service holds under the
\* pipe's own ARN (those list_tags_for_resource returns for it).
C16_TagsMirrored ==
    \A e \in Live : TagMap(ent[e].tags) = TAGS[ent[e].account_id][arn(ent[e])]

\* C17: create_pipe and describe_pipe return the Arn
\* arn:aws:pipes:<region>:<account>:pipe/<name> of the partition they were
\* called in, the name extracted from that Arn is the pipe's name, and a tag
\* operation whose ARN names another region or account than the caller's does
\* not resolve to a pipe: it never succeeds.
C17_ArnRoundTrip ==
    [][CallStep =>
        LET c == lastCall'
        IN  /\ (c.op \in {"create_pipe", "describe_pipe"} /\ c.result = "ok")
               => /\ c.resp.Arn = <<"arn", "aws", "pipes", c.region, c.account,
                                    <<"pipe", c.name>>>>
                  /\ _pipe_name_from_arn(c.resp.Arn) = c.name
            /\ (/\ c.op \in {"tag_resource", "untag_resource", "list_tags_for_resource"}
                /\ Len(c.resource_arn) >= 5
                /\ <<c.resource_arn[5], c.resource_arn[4]>> # PartOf(c))
               => c.result = "NotFoundException"]_vars

\* the key K when the trimmed template is the single placeholder <K>, with K
\* one of aws.pipes.event.json, aws.pipes.event, or $. followed by a dotted
\* path; <<>> otherwise
SingleKey(template) ==
    LET t == strip(template)
        k == SubSeq(t, 2, Len(t) - 1)
    IN  IF /\ Len(t) >= 3 /\ t[1] = "<" /\ t[Len(t)] = ">"
           /\ \/ k \in {<<"aws.pipes.event.json">>, <<"aws.pipes.event">>}
              \/ /\ startswith(k, <<"$", ".">>)
                 /\ \A i \in 3..Len(k) : k[i] \notin {"<", ">", "$", " ", "\n"}
        THEN k
        ELSE <<>>

RECURSIVE Member(_, _)
\* the member of value v reached through the keys, Null when there is none
Member(v, keys) ==
    IF keys = <<>> THEN v
    ELSE IF v[1] = "obj" /\ \E kv \in v[2] : kv[1] = Head(keys)
    THEN Member((CHOOSE kv \in v[2] : kv[1] = Head(keys))[2], Tail(keys))
    ELSE Null

\* what placeholder key k resolves to on an event
Resolves(event, k) ==
    IF k[1] = "$" THEN Member(event, split(SubSeq(k, 3, Len(k)), ".")) ELSE event

\* C20: when the trimmed template is a single placeholder that resolves to an
\* object or array O, transform returns O itself, not a string; for
\* <aws.pipes.event.json> it returns the input event.
C20_SinglePlaceholder ==
    (request.op = "transform" /\ outcome # NoOutcome /\ SingleKey(request.transformer.input_template) # <<>>)
    => LET k == SingleKey(request.transformer.input_template)
           O == Resolves(request.event, k)
       IN  /\ O[1] \in {"obj", "arr"} => outcome = O
           /\ k = <<"aws.pipes.event.json">> => outcome = request.event

\* transform has returned the object under a two-key path of a template with
\* white space around its placeholder
C20_Witness ==
    /\ request.op = "transform"
    /\ outcome # NoOutcome
    /\ strip(request.transformer.input_template) # request.transformer.input_template
    /\ SingleKey(request.transformer.input_template) = <<"$", ".", "a", ".", "b">>
    /\ outcome[1] = "obj"
    /\ outcome # request.event

\* ----------------------------------------------------------------- data path properties
Processed == request.op = "process_events_batch" /\ outcome # NoOutcome

\* the i-th input event as the target is to receive it
Prepared(i) ==
    IF request.input_transformer # <<>>
    THEN transform(request.input_transformer[1], _decode_data_field(request.input_events[i]))
    ELSE _decode_data_field(request.input_events[i])

\* C18: process_events_batch ends in one of three ways.  A
\* CustomerInvocationError raised by the target leaves the call unchanged; any
\* other exception, of the decoding or of the target, leaves it as a
\* PipeInternalError carrying the message of that exception; and when the call
\* returns, target.send was called exactly once, with one event per input
\* event, in input order.
C18_BatchClassification ==
    Processed =>
        LET result == outcome[2]
            send_calls == outcome[3]
            target_raised == outcome[4]
            undecodable == {i \in 1..Len(request.input_events) :
                               request.input_events[i][1] # "obj"}
        IN  /\ result[1] \in {"return", "raise"}
            /\ result[1] = "raise" =>
                   result[2] \in {"CustomerInvocationError", "PipeInternalError"}
            /\ (target_raised # <<>> /\ target_raised[2] = "CustomerInvocationError")
                   => result = target_raised
            /\ (target_raised # <<>> /\ target_raised[2] # "CustomerInvocationError")
                   => result = Exc("PipeInternalError", target_raised[3])
            /\ undecodable # {} =>
                   /\ result[1] = "raise" /\ result[2] = "PipeInternalError"
                   /\ send_calls = <<>>
            /\ (undecodable = {} /\ target_raised = <<>>) => result = <<"return">>
            /\ result = <<"return">> =>
                   /\ Len(send_calls) = 1
                   /\ Len(send_calls[1]) = Len(request.input_events)
                   /\ \A i \in 1..Len(request.input_events) :
                          send_calls[1][i] = Prepared(i)

\* a batch of two different events, decoded and transformed, whose second
\* delivery raised CustomerInvocationError after the first was made
C18_Witness ==
    /\ Processed
    /\ Len(request.input_events) = MaxBatch
    /\ request.input_events[1] # request.input_events[2]
    /\ request.input_transformer # <<>>
    /\ Len(sent) = MaxBatch
    /\ outcome[4] # <<>>
    /\ outcome[2] = Exc("CustomerInvocationError", "rejected")

\* C19: a target's send makes exactly one delivery call per event of the batch,
\* in input order, whatever the individual delivery calls give.
C19_DeliveryPerEvent ==
    (request.op = "send" /\ outcome # NoOutcome /\ ~IsExc(request.setup)) =>
        /\ Len(sent) = Len(request.events)
        /\ \A i \in 1..Len(request.events) :
               sent[i] = Delivery(request.target, request.events[i])


\* ----------------------------------------------------------------- decoding properties
Decoded == request.op = "decode" /\ outcome # NoOutcome

\* the value of the data field of a record, <<"absent">> when it has none
DataOf(event) == dict_get(event, <<"data">>, <<"absent">>)

\* C21: decoding a record that has no data field, or whose data field is an
\* object, returns a record of equal content; decoding a returned record whose
\* data field is an object returns that record again; and the caller's record
\* is the same after the call as before it.
C21_DecodeIdempotent ==
    Decoded =>
        /\ request.event = request.given
        /\ request.given[1] = "obj" =>
               /\ DataOf(request.given)[1] \in {"absent", "obj"} =>
                      outcome[2] = request.given
               /\ DataOf(outcome[2])[1] = "obj" => outcome[3] = outcome[2]

\* a record with another key and two layers of base64 around the JSON text of
\* an object was decoded to that object, and decoded again
C21_Witness ==
    /\ Decoded
    /\ request.given[1] = "obj"
    /\ DataOf(request.given)[1] = "b64"
    /\ DataOf(request.given) = Layers(<<"json", Obj({<< <<"k">>, Num(1) >>})>>, 2)
    /\ dict_get(request.given, <<"k">>, Null) = Num(1)
    /\ DataOf(outcome[2]) = Obj({<< <<"k">>, Num(1) >>})
    /\ outcome[3] = outcome[2]
    /\ outcome[2] # request.given


\* ----------------------------------------------------------------- HTTP destination properties
\* the first reply of the batch that is an exception or an authentication
\* failure, <<"ok">> when there is none
FirstFailure ==
    LET at == {i \in 1..Len(request.replies) :
                  \/ IsExc(request.replies[i])
                  \/ request.replies[i] = Unauthorized}
    IN  IF at = {} THEN <<"ok">> ELSE request.replies[Least(at)]

\* C22: the send of the HTTP destination target returns when the responses
\* have status >= 400 other than an authentication failure; it raises
\* CustomerInvocationError at a response that is an authentication failure;
\* and it raises an exception that is not CustomerInvocationError at an error
\* of the connection.
C22_HttpErrors ==
    (request.op = "send" /\ request.target = "events" /\ ~IsExc(request.setup)
        /\ outcome # NoOutcome) =>
        /\ FirstFailure = <<"ok">> => outcome[2] = <<"return">>
        /\ FirstFailure[1] = "status" =>
               outcome[2][1] = "raise" /\ outcome[2][2] = "CustomerInvocationError"
        /\ IsExc(FirstFailure) =>
               outcome[2][1] = "raise" /\ outcome[2][2] # "CustomerInvocationError"


\* ----------------------------------------------------------------- worker loop properties
\* a later worker of the same entity has been started
Superseded(w) ==
    \E v \in 1..Len(workers) :
        v > w /\ workers[v].pipe = workers[w].pipe /\ workers[v].pc # "new"

\* C23: once a fresh worker has been started for a pipe, the loop of a previous
\* worker of that pipe calls poll_events no more and writes current_state no
\* more.
C23_OneLoopPerPipe ==
    [][\A w \in 1..Len(workers) :
          Superseded(w) =>
              ~(_poll_loop_enter(w) \/ _poll_loop_poll(w) \/ _poll_loop_stopped(w))]_vars


\* the steps of worker w's thread from one state to the next
Moved(w, from) == workers[w].pc = from /\ workers'[w].pc # from

\* C24: once stop() has set the event, the loop begins at most one more
\* poll_events call, its wait returns without the timeout running out, the
\* while test leaves the loop, poller.close() is called once, and the write of
\* STOPPED ends the thread.
C24_StopEndsLoop ==
    [][\A w \in 1..Len(workers) :
          workers[w].shutdown =>
              /\ loops'[w].late <= 1
              /\ Moved(w, "wait") => ~loops'[w].slept.ran_out
              /\ Moved(w, "loop") => workers'[w].pc = "exit"
              /\ Moved(w, "exit") =>
                     workers'[w].pc = "closed" /\ workers'[w].closed = 1
              /\ Moved(w, "closed") =>
                     /\ workers'[w].pc = "done"
                     /\ ent'[workers[w].pipe].current_state = "STOPPED"
              /\ workers[w].pc = "done" =>
                     workers'[w] = workers[w] /\ loops'[w] = loops[w]]_vars

\* a thread that was stopped between the while test and poll_events: it made
\* that one call, failed, was given a backoff as timeout, and came to its end
C24_Witness ==
    \E w \in 1..Len(workers) :
        /\ workers[w].shutdown
        /\ workers[w].pc = "done"
        /\ workers[w].closed = 1
        /\ loops[w].late = 1
        /\ loops[w].slept = [timeout |-> 4, ran_out |-> FALSE]
        /\ ent[workers[w].pipe].current_state = "STOPPED"

\* C25: after a poll that returns the loop waits the base interval and the
\* backoff is reset; after EmptyPollResultsException it waits the base interval
\* and the backoff is as before; after any other exception it waits what
\* backoff.next_backoff() gives.  No outcome of poll_events ends the loop or
\* writes current_state: the loop is left only with the event set.
C25_SleepAfterPoll ==
    [][\A w \in 1..Len(workers) :
          /\ Moved(w, "poll") =>
                 /\ workers'[w].pc = "wait"
                 /\ ent' = ent
                 /\ loops'[w].last = "returns" =>
                        /\ loops'[w].poll_interval = PIPES_POLL_INTERVAL_SEC
                        /\ loops'[w].error_backoff.retry_interval = 0
                 /\ loops'[w].last = "EmptyPollResultsException" =>
                        /\ loops'[w].poll_interval = PIPES_POLL_INTERVAL_SEC
                        /\ loops'[w].error_backoff = loops[w].error_backoff
                 /\ loops'[w].last = "Exception" =>
                        /\ loops'[w].poll_interval =
                               next_backoff(loops[w].error_backoff).interval
                        /\ loops'[w].error_backoff =
                               next_backoff(loops[w].error_backoff).backoff
          /\ Moved(w, "wait") =>
                 /\ workers'[w].pc = "loop"
                 /\ loops'[w].slept.timeout = loops[w].poll_interval
          /\ (workers'[w].pc = "exit" /\ workers[w].pc # "exit") => workers[w].shutdown]_vars

\* a thread whose last poll had no results, after two failed polls: it waited
\* the base interval and the backoff still stands at its third interval
C25_Witness ==
    \E w \in 1..Len(workers) :
        /\ workers[w].pc = "loop"
        /\ ~workers[w].shutdown
        /\ loops[w].last = "EmptyPollResultsException"
        /\ loops[w].fails = 2
        /\ loops[w].slept = [timeout |-> PIPES_POLL_INTERVAL_SEC, ran_out |-> TRUE]
        /\ loops[w].error_backoff.retry_interval = 8

\* min(2 * 2^(k - 1), 300)
Capped(k) == IF 2 * 2^(k - 1) < 300 THEN 2 * 2^(k - 1) ELSE 300

\* C26: the wait after the k-th failed poll since the last successful one (or
\* since the start of the loop) has timeout min(2 * 2^(k - 1), 300), for each
\* worker by its own count.
C26_BackoffDoublesCapped ==
    \A w \in 1..Len(workers) :
        (loops[w].last = "Exception" /\ loops[w].fails >= 1) =>
            /\ loops[w].poll_interval = Capped(loops[w].fails)
            /\ (workers[w].pc = "loop" /\ loops[w].waits = 1) =>
                   loops[w].slept.timeout = Capped(loops[w].fails)

\* one worker has waited 300 seconds after its ninth failure while the other,
\* after a successful poll, has waited 2 seconds after its first
C26_Witness ==
    \E w \in 1..Len(workers), v \in 1..Len(workers) :
        /\ workers[w].pc = "loop" /\ workers[v].pc = "loop"
        /\ loops[w].last = "Exception" /\ loops[v].last = "Exception"
        /\ loops[w].fails = 9 /\ loops[w].slept.timeout = 300
        /\ loops[v].fails = 1 /\ loops[v].slept.timeout = 2
        /\ loops[v].slept.ran_out


\* ----------------------------------------------------------------- stopping properties
\* the poll loop of worker w is under way
InLoop(w) == w \in 1..Len(workers) /\ workers[w].pc \in {"spawned", "loop", "poll"}

\* the poll loop of worker w has been left and its poller closed
Exited(w) == w \in 1..Len(workers) /\ workers[w].pc \in {"closed", "done"}

\* C27: after the process-stop hook, every worker loop that was under way
\* comes to its exit and closes its poller.
C27_HookStopsAll ==
    \A w \in WorkerIds :
        (lastCall.op = "on_before_stop" /\ InLoop(w)) ~> Exited(w)

\* C28: a stop_pipe whose worker's stop() raises returns normally, with the
\* pipe in STOP_FAILED, the entity still in the store and no worker in the
\* index under the pipe's name.
C28_StopFailed ==
    [][\A pt \in Parts, n \in Names :
          (stop_pipe_with(pt[1], pt[2], n, TRUE)
              /\ pipes[pt][n] # 0 /\ ent[pipes[pt][n]].desired_state # "STOPPED"
              /\ _pipe_workers[n] # 0) =>
              /\ lastCall'.result = "ok"
              /\ lastCall'.resp.CurrentState = "STOP_FAILED"
              /\ pipes'[pt][n] = pipes[pt][n]
              /\ ent'[pipes[pt][n]].current_state = "STOP_FAILED"
              /\ ent'[pipes[pt][n]].desired_state = "STOPPED"
              /\ _pipe_workers'[n] = 0]_vars

\* a pipe left in STOP_FAILED by a stop_pipe, its loop still polling
C28_Witness ==
    /\ lastCall.op = "stop_pipe"
    /\ lastCall.result = "ok"
    /\ lastCall.resp.CurrentState = "STOP_FAILED"
    /\ \E w \in 1..Len(workers) :
           /\ workers[w].pc = "poll"
           /\ ~workers[w].shutdown
           /\ ent[workers[w].pipe].current_state = "STOP_FAILED"
           /\ ent[workers[w].pipe].name = lastCall.name
           /\ _pipe_workers[lastCall.name] = 0


\* ----------------------------------------------------------------- parameter properties
\* C30: after a worker has been built for a pipe, describe_pipe returns the
\* source and target parameter groups as the caller supplied them.
C30_ParametersUntouched ==
    (request.op = "create_worker" /\ outcome # NoOutcome) =>
        /\ outcome[2].SourceParameters = request.source_parameters
        /\ outcome[2].TargetParameters = request.target_parameters

\* ----------------------------------------------------------------- request thread properties
AllReturned == Len(calls) > 0 /\ \A i \in 1..Len(calls) : calls[i].pc = "returned"

\* the thread of worker w is in its loop and has not been told to stop
LoopRunning(w) ==
    /\ w \in 1..Len(workers)
    /\ workers[w].pc \in {"spawned", "loop", "poll"}
    /\ ~workers[w].shutdown

\* C29: when the concurrent requests on a pipe have all returned, every
\* worker loop that is still running is registered in the worker index, and
\* no loop is running for a pipe whose desired_state is STOPPED or that was
\* deleted, as after any serial order of the requests.
C29_SerialOutcome ==
    AllReturned =>
        \A w \in 1..Len(workers) :
            LoopRunning(w) =>
                /\ _pipe_workers[ent[workers[w].pipe].name] = w
                /\ ent[workers[w].pipe].desired_state = "RUNNING"
                /\ pipes[<<RaceAccount, RaceRegion>>][RaceName] = workers[w].pipe

\* ----------------------------------------------------------------- state_reason properties
\* C31: a pipe in the store has a state_reason only while its current_state
\* is CREATE_FAILED: an operation that brings it to STARTING, RUNNING or
\* STOPPED clears the reason a failed worker start wrote.
C31_ReasonOnlyWhenCreateFailed ==
    \A pt \in Parts, n \in StoreNames :
        LET e == pipes[pt][n]
        IN  (e # 0 /\ ent[e].state_reason # None) =>
                ent[e].current_state = "CREATE_FAILED"

====
